---------------------------- MODULE Spec2Model ----------------------------
(***************************************************************************)
(* Pattern detection and confidence scoring engine of the Pro Pattern      *)
(* Detector (pattern_detectors.py, risk_calculator.py, data_handler.py,    *)
(* config.py), as a state machine: a series of OHLCV bars is handed to     *)
(* detect_pattern, whose info is handed to calculate_levels, whose Levels  *)
(* are handed to validate_levels.                                          *)
(*                                                                         *)
(* Numbers.  Prices and volumes are integers.  Every comparison the code   *)
(* makes on a quotient is made here on the cross-multiplied integers, so   *)
(* the arithmetic is exact.  A confidence is held in units of 1/CS, fine   *)
(* enough for every product of the code's factors (0.5 ... 1.1) to be an   *)
(* integer.  A quotient kept in an info or Levels field is a pair          *)
(* <<numerator, denominator>>.                                             *)
(*                                                                         *)
(* MACD.  macd_line, signal_line and histogram are exponentially weighted  *)
(* floating-point means of the closes; the detectors read only the two     *)
(* comparisons macd > signal and histogram[-1] > histogram[-3].  Their     *)
(* outcomes are inputs of the model (env.macd_bullish, env.hist_rising),   *)
(* fixed together with the series.                                         *)
(***************************************************************************)
EXTENDS Integers, Sequences, FiniteSets, TLC

VARIABLES
    data,        \* the series: a sequence of bars [o, h, l, c, v]
    env,         \* float-valued indicator comparisons attached to the series
    timeframe,   \* the timeframe tag handed to detect_pattern
    pc,          \* position of the pipeline: "idle", "detected", "levelled", "validated"
    pattern,     \* pattern type of the last detect_pattern call
    detected,    \* detect_pattern's first result
    confidence,  \* detect_pattern's second result, in units of 1/CS
    raw,         \* the detector's own (confidence, info) before the pipeline's scaling
    info,        \* detect_pattern's third result: a function from keys to values
    levels,      \* the Levels of the last calculate_levels call
    validation,  \* the result of the last validate_levels call
    history,     \* first result seen for each (pattern type) on this series
    run          \* run_analysis: the tickers, the settings, the loop positions, the calls made

vars == <<data, env, timeframe, pc, pattern, detected, confidence, raw, info,
          levels, validation, history, run>>

-----------------------------------------------------------------------------
(* Generic helpers *)

CS == 100 * 100

Pts(n) == n * CS

\* x * num / den on a confidence: exact for every factor the code uses
Times(x, num, den) == (x * num) \div den

Min2(a, b) == IF a <= b THEN a ELSE b
Max2(a, b) == IF a >= b THEN a ELSE b

SetMin(S) == CHOOSE x \in S : \A y \in S : x <= y
SetMax(S) == 0 - SetMin({0 - x : x \in S})

RECURSIVE SumOver(_, _, _, _)
\* sum of f(data[i]) for i in lo..hi, with f given as a field name
SumOver(s, field, lo, hi) ==
    IF lo > hi THEN 0 ELSE s[lo][field] + SumOver(s, field, lo + 1, hi)

\* round(num/den, 0) for num >= 0, den > 0: Python rounds a tie to even
RoundDiv(num, den) ==
    LET q == num \div den
        r == num % den
    IN IF 2 * r < den THEN q
       ELSE IF 2 * r > den THEN q + 1
       ELSE IF q % 2 = 0 THEN q ELSE q + 1

\* str(round(x * 100, 1)) + "%" for x = num/den: the percentage in tenths
PctTenths(num, den) ==
    IF num >= 0 THEN RoundDiv(num * 1000, den) ELSE 0 - RoundDiv((0 - num) * 1000, den)

EmptyInfo == [k \in {} |-> TRUE]

Has(m, k) == k \in DOMAIN m
\* dict.get(k): a missing key is falsy
Truthy(m, k) == IF k \in DOMAIN m THEN m[k] = TRUE ELSE FALSE
\* m[k] = v, as an assignment to a dict
Put(m, k, v) == (k :> v) @@ m
\* a.update(b)
Update(a, b) == b @@ a

-----------------------------------------------------------------------------
(* The series *)

N(s) == Len(s)
\* s.iloc[-k], k >= 1
Back(s, k) == s[Len(s) - k + 1]
\* the index set of s.tail(k) and of s.iloc[-a:-b]
TailIdx(s, k) == (Max2(Len(s) - k, 0) + 1) .. Len(s)
SliceIdx(s, a, b) == (Max2(Len(s) - a, 0) + 1) .. (Len(s) - b)

HighMax(s, I) == SetMax({s[i].h : i \in I})
LowMin(s, I) == SetMin({s[i].l : i \in I})
LowMax(s, I) == SetMax({s[i].l : i \in I})
VolSum(s, I) == IF I = {} THEN 0 ELSE SumOver(s, "v", SetMin(I), SetMax(I))


-----------------------------------------------------------------------------
(* config.py *)

\* VOLUME_THRESHOLDS, in tenths of the multiplier
VOL_GOOD == 13
VOL_STRONG == 15
VOL_EXCEPTIONAL == 20

\* VOLUME_SCORE_POINTS
PTS_EXCEPTIONAL == 25
PTS_STRONG == 20
PTS_GOOD == 15
PTS_WEAK == 0

\* PATTERN_VOLUME_BONUS
PATTERN_VOLUME_BONUS(p) ==
    CASE p = "Bull Flag" -> 20
      [] p = "Cup Handle" -> 20
      [] p = "Flat Top Breakout" -> 20
      [] p = "Inside Bar" -> 15
      [] p = "Inverse Head Shoulders" -> 20
      [] p = "Consolidation Breakout" -> 25

MAX_CONFIDENCE_WITHOUT_VOLUME == 70

PATTERNS == {"Flat Top Breakout", "Bull Flag", "Cup Handle", "Inside Bar",
             "Inverse Head Shoulders", "Consolidation Breakout"}

-----------------------------------------------------------------------------
(* data_handler.py: the indicator columns detect_consolidation_breakout reads. *)
(* A rolling mean is kept as its window sum; a window reaching before the     *)
(* first bar, or holding the undefined first True Range, is NaN.              *)

Abs(x) == IF x >= 0 THEN x ELSE 0 - x

\* the undefined value of a rolling window (every defined window sum is >= 0)
NaN == 0 - 1

\* calculate_true_range, for the bar at index i >= 2 (TR of the first bar is NaN)
TrueRange(s, i) ==
    Max2(s[i].h - s[i].l, Max2(Abs(s[i].h - s[i - 1].c), Abs(s[i].l - s[i - 1].c)))

\* calculate_nr_bars: TR is the lowest of the last `period` bars
NRFlag(s, i, period) ==
    /\ i - period + 1 >= 2
    /\ \A k \in (i - period + 1) .. i : TrueRange(s, i) <= TrueRange(s, k)

RECURSIVE TRSum(_, _, _)
TRSum(s, lo, hi) == IF lo > hi THEN 0 ELSE TrueRange(s, lo) + TRSum(s, lo + 1, hi)

\* 20 * TR20 at index i, or NaN
TR20x20(s, i) == IF i - 19 >= 2 THEN TRSum(s, i - 19, i) ELSE NaN

\* 50 * Vol50 at index i, or NaN
Vol50x50(s, i) == IF i >= 50 THEN VolSum(s, (i - 49) .. i) ELSE NaN

RECURSIVE DollarSum(_, _, _)
DollarSum(s, lo, hi) == IF lo > hi THEN 0 ELSE s[lo].v * s[lo].c + DollarSum(s, lo + 1, hi)

RECURSIVE AvgDollarTail(_, _, _)
\* sum over i in lo..hi of 20 * Avg_Dollar_Volume[i], skipping the NaN rows
AvgDollarTail(s, lo, hi) ==
    IF lo > hi THEN 0
    ELSE (IF lo >= 20 THEN DollarSum(s, lo - 19, lo) ELSE 0) + AvgDollarTail(s, lo + 1, hi)

-----------------------------------------------------------------------------
(* config.py: PATTERN_PARAMS["Consolidation Breakout"], PATTERN_THRESHOLDS,   *)
(* PATTERN_AGE_LIMITS                                                          *)

BOX_BARS_DAILY == 15
BOX_BARS_4H == 40
BOX_BARS_WEEKLY == 8
NR_CLUSTER_LOOKBACK == 5
NR_CLUSTER_MIN_HITS == 2
VOL_DRYUP_K == 10
MIN_CONFIDENCE_BASE == 40
CONSOLIDATION_BONUS == 20
BREAKOUT_BONUS == 25
VOLUME_DRYUP_BONUS == 15
MA_PINCH_BONUS == 10
NR_CLUSTER_BONUS == 15
MAX_CONSOLIDATION_BARS == 100

\* one unit of volume is SharesPerUnit shares; min_liquidity_usd = 2e7
SharesPerUnit == 100 * 100
MIN_LIQUIDITY_USD == 2 * 10000000

\* PATTERN_AGE_LIMITS.get(timeframe, PATTERN_AGE_LIMITS['daily'])['Consolidation Breakout']
ConsolidationAgeLimit(tf) == IF tf = "4h" THEN 48 ELSE 12

-----------------------------------------------------------------------------
(* A detector's running result: the confidence and the info it has built so *)
(* far.  Each step of a detector is one of the operators below.             *)

Result(conf, pinfo) == [confidence |-> conf, info |-> pinfo]

\* key :> TRUE
Flag(k) == k :> TRUE

\* if cond: confidence += pts; pattern_info.update(extra)
Bonus(r, cond, pts, extra) ==
    IF cond THEN [r EXCEPT !.confidence = @ + pts, !.info = extra @@ @] ELSE r

\* if cond: confidence *= num/den; pattern_info.update(extra)
Scaled(r, cond, num, den, extra) ==
    IF cond THEN [r EXCEPT !.confidence = Times(@, num, den), !.info = extra @@ @] ELSE r

\* pattern_info.update(extra)
Note(r, extra) == [r EXCEPT !.info = extra @@ @]

-----------------------------------------------------------------------------
(* pattern_detectors.py: analyze_volume_pattern.  Its running result is the *)
(* pair [score, info].                                                       *)

\* the tier test with an exclusive lower bound, the variant TierByInclusiveBounds
\* is measured against
MultAbove(cur, sum20, t) == 200 * cur > t * sum20

\* volume_multiplier >= t/10, with volume_multiplier = cur / (sum20 / 20)
MultAtLeast(cur, sum20, t) == 200 * cur >= t * sum20
MultBelow(cur, sum20, t) == 200 * cur < t * sum20

\* if cond: volume_score += pts; volume_info.update(extra)
VAdd(v, cond, pts, extra) ==
    IF cond THEN [score |-> v.score + pts, info |-> extra @@ v.info] ELSE v

\* lines 19-29
VolumeBase(cur, sum20, sum5) ==
    [score |-> 0,
     info |-> ("avg_volume_20" :> <<sum20, 20>>) @@ ("current_volume" :> cur)
              @@ ("volume_multiplier" :> <<20 * cur, sum20>>)
              @@ ("recent_multiplier" :> <<4 * sum5, sum20>>)]

\* the tier's flag and its volume_status: the label and round(volume_multiplier, 1)
TierInfo(flag, label, cur, sum20) ==
    (flag :> TRUE) @@ ("volume_status" :> <<label, RoundDiv(200 * cur, sum20)>>)

\* lines 31-46: exactly one tier, inclusive lower bounds
VolumeTier(v, cur, sum20) ==
    IF MultAtLeast(cur, sum20, VOL_EXCEPTIONAL)
    THEN VAdd(v, TRUE, Pts(PTS_EXCEPTIONAL),
              TierInfo("exceptional_volume", "Exceptional Volume", cur, sum20))
    ELSE IF MultAtLeast(cur, sum20, VOL_STRONG)
    THEN VAdd(v, TRUE, Pts(PTS_STRONG), TierInfo("strong_volume", "Strong Volume", cur, sum20))
    ELSE IF MultAtLeast(cur, sum20, VOL_GOOD)
    THEN VAdd(v, TRUE, Pts(PTS_GOOD), TierInfo("good_volume", "Good Volume", cur, sum20))
    ELSE VAdd(v, TRUE, Pts(PTS_WEAK), TierInfo("weak_volume", "Weak Volume", cur, sum20))

\* lines 63-68; cav = <<sum, count>> is the mean volume of the box
VolumeVsConsolidation(v, cur, cav) ==
    VAdd(v, cur * cav[2] >= 2 * cav[1], Pts(15),
         "breakout_vs_consolidation" :> <<RoundDiv(10 * cur * cav[2], cav[1]), 10>>)

\* lines 49-68
VolumeConsolidation(v, pinfo, cur, sum20) ==
    LET b == PATTERN_VOLUME_BONUS("Consolidation Breakout")
        v1 == VAdd(v, Truthy(pinfo, "vol_dryup"), Times(Pts(b), 6, 10),
                   Flag("consolidation_volume_dryup"))
        v2 == VAdd(v1, MultAtLeast(cur, sum20, 18) \/ MultAtLeast(cur, sum20, 15),
                   IF MultAtLeast(cur, sum20, 18) THEN Pts(b) ELSE Times(Pts(b), 8, 10),
                   IF MultAtLeast(cur, sum20, 18) THEN Flag("strong_breakout_volume")
                   ELSE Flag("good_breakout_volume"))
    IN IF Has(pinfo, "consolidation_avg_volume")
       THEN VolumeVsConsolidation(v2, cur, pinfo["consolidation_avg_volume"])
       ELSE v2

\* lines 76-86, on the two sums and the two bar counts
FlagpoleVolume(v, flagpole_vol, np, flag_vol, nf) ==
    \* the mean of an empty slice is NaN: every comparison with it is false
    IF np = 0 THEN v
    ELSE VAdd(v, flagpole_vol * nf * 10 > flag_vol * np * 11,
              IF flagpole_vol * nf * 10 > flag_vol * np * 12
              THEN Pts(PATTERN_VOLUME_BONUS("Bull Flag"))
              ELSE Pts(PATTERN_VOLUME_BONUS("Bull Flag") \div 2),
              (IF flagpole_vol * nf * 10 > flag_vol * np * 12
               THEN Flag("flagpole_volume_pattern") ELSE Flag("moderate_flagpole_volume"))
              @@ ("flagpole_vol_ratio" :> <<flagpole_vol * nf, flag_vol * np>>))

\* lines 70-88
VolumeBullFlag(v, s, pinfo) ==
    IF ~Has(pinfo, "flagpole_gain") THEN v
    ELSE FlagpoleVolume(v, VolSum(s, SliceIdx(s, Min2(25, N(s) - 10), 15)),
                        Cardinality(SliceIdx(s, Min2(25, N(s) - 10), 15)),
                        VolSum(s, TailIdx(s, 15)), Cardinality(TailIdx(s, 15)))

\* lines 98-108, on the two sums and the two bar counts
HandleVolume(v, cup_volume, nc, handle_volume, nh) ==
    VAdd(v, handle_volume * nc * 100 < cup_volume * nh * 90,
         IF handle_volume * nc * 100 < cup_volume * nh * 80
         THEN Pts(PATTERN_VOLUME_BONUS("Cup Handle"))
         ELSE Times(Pts(PATTERN_VOLUME_BONUS("Cup Handle")), 75, 100),
         (IF handle_volume * nc * 100 < cup_volume * nh * 80
          THEN Flag("significant_volume_dryup") ELSE Flag("moderate_volume_dryup"))
         @@ ("handle_vol_ratio" :> <<handle_volume * nc, cup_volume * nh>>))

\* lines 90-110
VolumeCupHandle(v, s, handle_days) ==
    IF handle_days > 5 /\ N(s) - handle_days > 10
    THEN HandleVolume(v, VolSum(s, 1 .. (N(s) - handle_days)), N(s) - handle_days,
                      VolSum(s, TailIdx(s, handle_days)), handle_days)
    ELSE v

\* lines 112-123: avg_resistance_volume is the mean of the same last 20 bars
VolumeFlatTop(v, cur, sum20) ==
    VAdd(v, 200 * cur > 12 * sum20,
         IF 200 * cur > 14 * sum20 THEN Pts(PATTERN_VOLUME_BONUS("Flat Top Breakout"))
         ELSE Times(Pts(PATTERN_VOLUME_BONUS("Flat Top Breakout")), 75, 100),
         (IF 200 * cur > 14 * sum20 THEN Flag("breakout_volume_surge")
          ELSE Flag("moderate_breakout_volume"))
         @@ ("resistance_vol_ratio" :> <<20 * cur, sum20>>))

\* lines 125-137
VolumeInsideBar(v, cur, sum20) ==
    LET b == PATTERN_VOLUME_BONUS("Inside Bar")
        v1 == VAdd(v, MultBelow(cur, sum20, 10),
                   IF MultBelow(cur, sum20, 8) THEN Pts(b) ELSE Times(Pts(b), 67, 100),
                   IF MultBelow(cur, sum20, 8) THEN Flag("consolidation_volume")
                   ELSE Flag("quiet_consolidation"))
    IN VAdd(v1, MultAtLeast(cur, sum20, 15), Pts(b), Flag("breakout_volume_expansion"))

\* lines 48-137: the pattern-specific bonus
VolumePattern(v, s, pattern_type, pinfo, cur, sum20) ==
    CASE pattern_type = "Consolidation Breakout" -> VolumeConsolidation(v, pinfo, cur, sum20)
      [] pattern_type = "Bull Flag" -> VolumeBullFlag(v, s, pinfo)
      [] pattern_type = "Cup Handle" -> VolumeCupHandle(v, s, Min2(30, N(s) \div 3))
      [] pattern_type = "Flat Top Breakout" -> VolumeFlatTop(v, cur, sum20)
      [] pattern_type = "Inside Bar" -> VolumeInsideBar(v, cur, sum20)
      [] OTHER -> v

\* lines 139-146: volume_trend = mean(last 5) / mean(last 20) = 4 * sum5 / sum20
VolumeTrend(v, sum5, sum20) ==
    VAdd(v, 40 * sum5 > 11 * sum20 \/ 40 * sum5 < 9 * sum20, Pts(5),
         IF 40 * sum5 > 11 * sum20 THEN Flag("increasing_volume_trend")
         ELSE Flag("decreasing_volume_trend"))

\* lines 19-148, on the three volume figures
VolumeScore(s, pattern_type, pinfo, cur, sum20, sum5) ==
    VolumeTrend(VolumePattern(VolumeTier(VolumeBase(cur, sum20, sum5), cur, sum20),
                              s, pattern_type, pinfo, cur, sum20),
                sum5, sum20)

analyze_volume_pattern(s, pattern_type, pinfo) ==
    IF N(s) < 20 THEN [score |-> 0, info |-> EmptyInfo]
    ELSE VolumeScore(s, pattern_type, pinfo, Back(s, 1).v,
                     VolSum(s, TailIdx(s, 20)), VolSum(s, TailIdx(s, 5)))

\* the "volume confirmation" test every detector makes on a volume info
VolumeConfirmed(vinfo) ==
    Truthy(vinfo, "good_volume") \/ Truthy(vinfo, "strong_volume")
        \/ Truthy(vinfo, "exceptional_volume")

\* confidence += volume_score; pattern_info.update(volume_info); the volume info
\* is kept for the cap
AddVolume(r, vol) ==
    [confidence |-> r.confidence + vol.score, info |-> Update(r.info, vol.info),
     volume_info |-> vol.info]

ScoreVolume(s, pattern_type, r) == AddVolume(r, analyze_volume_pattern(s, pattern_type, r.info))

\* the cap applied after volume scoring, on the flags of vinfo
Cap(r, vinfo, ceiling) ==
    IF ~VolumeConfirmed(vinfo)
    THEN Result(Min2(r.confidence, Pts(ceiling)),
                Put(r.info, "confidence_capped", "No volume confirmation"))
    ELSE Result(r.confidence, r.info)

\* lines 519-525 and the like: the cap on the flags of the volume info
CapByVolume(r) == Cap(r, r.volume_info, MAX_CONFIDENCE_WITHOUT_VOLUME)

-----------------------------------------------------------------------------
(* pattern_detectors.py: detect_inside_bar *)

\* PATTERN_THRESHOLDS["Inside Bar"], in hundredths, as selected at lines 480-491
InsideBarThresholds(tf) ==
    IF tf = "1wk" THEN [tight |-> 35, good |-> 55, moderate |-> 75]
    ELSE IF tf = "4h" THEN [tight |-> 25, good |-> 45, moderate |-> 65]
    ELSE [tight |-> 30, good |-> 50, moderate |-> 70]

\* lines 389-401: number of scanned offsets, aging offset and label
InsideBarWindow(tf) ==
    IF tf = "1wk" THEN [lookback |-> 6, aging |-> 8, label |-> "Weekly"]
    ELSE IF tf = "4h" THEN [lookback |-> 7, aging |-> 10, label |-> "4-Hour"]
    ELSE [lookback |-> 4, aging |-> 6, label |-> "Daily"]

\* lines 410-421, for the bar at offset -k and the bar before it
IsInsidePair(current_bar, previous_bar) ==
    /\ current_bar.h <= previous_bar.h
    /\ current_bar.l >= previous_bar.l
    /\ current_bar.h < previous_bar.h
    /\ current_bar.l > previous_bar.l
    /\ previous_bar.c > previous_bar.o          \* mother_is_green
    /\ current_bar.c < current_bar.o            \* inside_is_red

RECURSIVE InsideBarScan(_, _, _, _)
\* lines 408-435: the loop over offsets -1, -2, ...; st = [count, mother, first]
\* holds inside_bars_count, -mother_bar_idx and -inside_bar_indices[0]
InsideBarScan(s, k, lookback, st) ==
    IF k > lookback THEN st
    ELSE IF k + 1 > N(s) THEN st                   \* IndexError: break
    ELSE IF IsInsidePair(Back(s, k), Back(s, k + 1))
    THEN IF st.count = 0
         THEN InsideBarScan(s, k + 1, lookback, [count |-> 1, mother |-> k + 1, first |-> k])
         ELSE IF st.count = 1 /\ k = st.first + 1
         THEN [st EXCEPT !.count = 2]              \* break
         ELSE st                                   \* break
    ELSE st                                        \* break

\* lines 471-503, on mother_bar_range, inside_bar_range and the thresholds
InsideBarTightness(r, mother_bar_range, inside_bar_range, th) ==
    IF mother_bar_range > 0
    THEN Bonus(r, TRUE,
               IF inside_bar_range * 100 < th.tight * mother_bar_range THEN Pts(20)
               ELSE IF inside_bar_range * 100 < th.good * mother_bar_range THEN Pts(15)
               ELSE IF inside_bar_range * 100 < th.moderate * mother_bar_range THEN Pts(10)
               ELSE Pts(5),
               (IF inside_bar_range * 100 < th.tight * mother_bar_range
                THEN Flag("tight_consolidation")
                ELSE IF inside_bar_range * 100 < th.good * mother_bar_range
                THEN Flag("good_consolidation")
                ELSE IF inside_bar_range * 100 < th.moderate * mother_bar_range
                THEN Flag("moderate_consolidation")
                ELSE EmptyInfo)
               @@ ("size_ratio" :> PctTenths(inside_bar_range, mother_bar_range)))
    ELSE r

\* lines 527-531; mother = -mother_bar_idx, aging = -aging_threshold
InsideBarAging(r, mother, aging, tf) ==
    Scaled(r, (0 - mother) <= (0 - aging), IF tf \in {"1wk", "4h"} THEN 7 ELSE 8, 10,
           Flag("pattern_aging") @@ ("age_periods" :> mother))

\* lines 449-531
InsideBarScore(s, e, tf, w, st, mother_bar, latest_inside_bar) ==
    LET r0 == Result(IF tf \in {"1wk", "4h"} THEN Pts(35) ELSE Pts(30),
                     ("mother_bar_high" :> mother_bar.h) @@ ("mother_bar_low" :> mother_bar.l)
                     @@ ("inside_bar_high" :> latest_inside_bar.h)
                     @@ ("inside_bar_low" :> latest_inside_bar.l)
                     @@ ("inside_bars_count" :> st.count)
                     @@ Flag("color_validated") @@ ("mother_bar_color" :> "Green")
                     @@ ("inside_bar_color" :> "Red") @@ ("timeframe" :> w.label))
        r1 == Bonus(r0, TRUE, Pts(15), Flag("proper_color_combo"))
        r2 == Bonus(r1, TRUE, IF st.count = 1 THEN Pts(15) ELSE Pts(10),
                    IF st.count = 1 THEN Flag("single_inside_bar")
                    ELSE Flag("double_inside_bar"))
        r3 == InsideBarTightness(r2, mother_bar.h - mother_bar.l,
                                 latest_inside_bar.h - latest_inside_bar.l,
                                 InsideBarThresholds(tf))
        r4 == Bonus(r3, e.macd_bullish, Pts(15), Flag("macd_bullish"))
        r5 == Bonus(r4, e.hist_rising, Pts(10), Flag("momentum_improving"))
        \* current_price >= latest_inside_bar['Low'] * 0.98
        r6 == Bonus(r5, Back(s, 1).c * 100 >= latest_inside_bar.l * 98, Pts(10),
                    Flag("price_in_range"))
        r7 == CapByVolume(ScoreVolume(s, "Inside Bar", r6))
    IN InsideBarAging(r7, st.mother, w.aging, tf)

\* lines 437-447
InsideBarFound(s, e, tf, w, st) ==
    IF st.count = 0 THEN Result(0, "timeframe" :> w.label)
    ELSE IF ~(Back(s, st.mother).c > Back(s, st.mother).o
              /\ Back(s, st.first).c < Back(s, st.first).o)
    THEN Result(0, "timeframe" :> w.label)
    ELSE InsideBarScore(s, e, tf, w, st, Back(s, st.mother), Back(s, st.first))

\* the detector without its test on the number of bars, the variant
\* ShortSeriesEmpty is measured against
detect_inside_bar_unguarded(s, e, tf) ==
    InsideBarFound(s, e, tf, InsideBarWindow(tf),
                   InsideBarScan(s, 1, InsideBarWindow(tf).lookback,
                                 [count |-> 0, mother |-> 0, first |-> 0]))

detect_inside_bar(s, e, tf) ==
    IF N(s) < 5 THEN Result(0, EmptyInfo)
    ELSE InsideBarFound(s, e, tf, InsideBarWindow(tf),
                        InsideBarScan(s, 1, InsideBarWindow(tf).lookback,
                                      [count |-> 0, mother |-> 0, first |-> 0]))

-----------------------------------------------------------------------------
(* pattern_detectors.py: detect_flat_top, detect_bull_flag, detect_cup_handle *)

\* PATTERN_AGE_LIMITS["daily"]
AGE_LIMIT_FLAT_TOP == 8
AGE_LIMIT_BULL_FLAG == 10

\* next((i for i in range(1, 11) if hit(i)), 11), with hit given as the set of
\* offsets i in 1..10 that satisfy the test
FirstOffset(hits) == IF hits = {} THEN 11 ELSE SetMin(hits)

BrokenResult(reason) == Result(0, Flag("pattern_broken") @@ ("break_reason" :> reason))

\* h >= resistance_level * resistance_tolerance (0.98)
Touches(s, i, resistance_level) == s[i].h * 100 >= resistance_level * 98

\* lines 566-611, on the descent's low and the days since the last touch
FlatTopScore(s, e, r, peak_price, descent_low, touches, days_old) ==
    LET d0 == N(s) - 24                         \* first bar of data.iloc[-25:-10]
        d1 == N(s) - 10                         \* its last bar
        \* rolling(3, center=True).max().dropna(): the first and the last window
        r1 == Bonus(r, HighMax(s, (d1 - 2) .. d1) * 100 < HighMax(s, d0 .. (d0 + 2)) * 97,
                    Pts(20), Flag("descending_highs"))
        \* the same on the lows of data.tail(15)
        r2 == Bonus(r1, LowMin(s, (N(s) - 2) .. N(s)) * 100
                            > LowMin(s, (N(s) - 14) .. (N(s) - 12)) * 101,
                    Pts(25), Flag("higher_lows"))
        r3 == Bonus(r2, touches >= 2, Pts(15),
                    ("resistance_level" :> peak_price) @@ ("resistance_touches" :> touches))
        r4 == Bonus(r3, e.macd_bullish, Pts(10), Flag("macd_bullish"))
    IN IF days_old > AGE_LIMIT_FLAT_TOP
       THEN Scaled(r3, TRUE, 5, 10, Flag("pattern_stale") @@ ("days_old" :> days_old))
       ELSE IF Back(s, 1).c * 100 < descent_low * 95
       THEN BrokenResult("Below support")
       ELSE CapByVolume(ScoreVolume(s, "Flat Top Breakout", r4))

\* lines 548-563, on start_price and peak_price
FlatTopFound(s, e, start_price, peak_price) ==
    \* initial_gain < min_initial_gain (0.10)
    IF (peak_price - start_price) * 100 < 10 * start_price THEN Result(0, EmptyInfo)
    \* pullback < min_pullback (0.08)
    ELSE IF (peak_price - LowMin(s, SliceIdx(s, 25, 10))) * 100 < 8 * peak_price
    THEN Result(Pts(25),
                "initial_ascension" :> PctTenths(peak_price - start_price, start_price))
    ELSE FlatTopScore(s, e,
                      Result(Pts(25), "initial_ascension"
                                         :> PctTenths(peak_price - start_price, start_price)),
                      peak_price, LowMin(s, SliceIdx(s, 25, 10)),
                      Cardinality({i \in TailIdx(s, 20) : Touches(s, i, peak_price)}),
                      FirstOffset({i \in 1 .. 10 : Touches(s, N(s) - i + 1, peak_price)}))

detect_flat_top(s, e) ==
    IF N(s) < 50 THEN Result(0, EmptyInfo)
    ELSE FlatTopFound(s, e, Back(s, Min2(45, N(s) - 15)).c,
                      HighMax(s, SliceIdx(s, Min2(45, N(s) - 15), 25)))

\* the flag's score with the age test ahead of the invalidation tests, the
\* variant BrokenBullFlagReported is measured against
BullFlagScoreStaleFirst(s, e, r, start_price, flag_start, current_price, flag_low, flag_high, days_old) ==
    IF days_old > AGE_LIMIT_BULL_FLAG
    THEN Scaled(r, TRUE, 5, 10, Flag("pattern_stale") @@ ("days_old" :> days_old))
    ELSE IF current_price * 100 < flag_low * 95 THEN BrokenResult("Below flag support")
    ELSE IF current_price < start_price THEN BrokenResult("Below flagpole start")
    ELSE CapByVolume(ScoreVolume(s, "Bull Flag", r))

\* lines 636-687, on the flag's extremes and the days since the flag's high
BullFlagScore(s, e, r, start_price, flag_start, current_price, flag_low, flag_high, days_old) ==
    LET \* pullback_range[0] <= pullback <= pullback_range[1]: (-0.15, 0.05)
        r1 == Bonus(r, /\ (0 - 15) * flag_start <= (current_price - flag_start) * 100
                       /\ (current_price - flag_start) * 100 <= 5 * flag_start,
                    Pts(20),
                    ("flag_pullback" :> PctTenths(current_price - flag_start, flag_start))
                    @@ Flag("healthy_pullback"))
        r2 == Note(r1, "days_since_high" :> days_old)
        r3 == Bonus(r2, e.macd_bullish, Pts(15), Flag("macd_bullish"))
        r4 == Bonus(r3, e.hist_rising, Pts(10), Flag("momentum_recovering"))
        r5 == ScoreVolume(s, "Bull Flag", r4)
        r6 == Bonus(r5, current_price * 100 >= flag_high * 95, Pts(10), Flag("near_breakout"))
    IN \* current_price < flag_low * flag_tolerance (0.95)
       IF current_price * 100 < flag_low * 95 THEN BrokenResult("Below flag support")
       ELSE IF current_price < start_price THEN BrokenResult("Below flagpole start")
       ELSE IF days_old > AGE_LIMIT_BULL_FLAG
       THEN Scaled(r1, TRUE, 5, 10, Flag("pattern_stale") @@ ("days_old" :> days_old))
       ELSE CapByVolume(r6)

\* lines 626-633, on start_price and peak_price
BullFlagFound(s, e, start_price, peak_price) ==
    \* flagpole_gain < min_flagpole_gain (0.08)
    IF (peak_price - start_price) * 100 < 8 * start_price THEN Result(0, EmptyInfo)
    ELSE BullFlagScore(s, e,
                       Result(Pts(25), "flagpole_gain"
                                          :> PctTenths(peak_price - start_price, start_price)),
                       start_price, Back(s, 15).c, Back(s, 1).c,
                       LowMin(s, TailIdx(s, 15)), HighMax(s, TailIdx(s, 15)),
                       FirstOffset({i \in 1 .. 10 :
                                       Back(s, i).h = HighMax(s, TailIdx(s, 15))}))

detect_bull_flag(s, e) ==
    IF N(s) < 30 THEN Result(0, EmptyInfo)
    ELSE BullFlagFound(s, e, Back(s, Min2(25, N(s) - 10)).c,
                       HighMax(s, SliceIdx(s, Min2(25, N(s) - 10), 15)))

\* lines 726-739: the handle depth tier; hd = cup_right - handle_low
HandleDepth(r, hd, cup_right) ==
    Bonus(r, TRUE,
          IF hd * 100 > 25 * cup_right THEN Pts(10)         \* max_handle_depth (0.25)
          ELSE IF hd * 100 <= 8 * cup_right THEN Pts(20)
          ELSE IF hd * 100 <= 15 * cup_right THEN Pts(15)
          ELSE Pts(10),
          (IF hd * 100 > 25 * cup_right THEN "deep_handle"
           ELSE IF hd * 100 <= 8 * cup_right THEN "perfect_handle"
           ELSE IF hd * 100 <= 15 * cup_right THEN "good_handle"
           ELSE "acceptable_handle") :> PctTenths(hd, cup_right))

\* lines 741-749: the handle duration
HandleDuration(r, handle_days) ==
    IF handle_days > 25 THEN Scaled(r, TRUE, 8, 10, "long_handle" :> handle_days)
    ELSE IF handle_days <= 10 THEN Bonus(r, TRUE, Pts(10), "short_handle" :> handle_days)
    ELSE Bonus(r, handle_days <= 20, Pts(5), "medium_handle" :> handle_days)

\* lines 723-752
CupHandleHandle(r, cup_right, handle_low, handle_days) ==
    IF handle_days > 0
    THEN HandleDuration(HandleDepth(r, cup_right - handle_low, cup_right), handle_days)
    ELSE Bonus(r, TRUE, Pts(10), "forming_handle" :> "Handle forming")

\* confidence *= 0.7 and a flag if cond, confidence += 5 otherwise (lines 754-762)
FarFromRim(r, cond) ==
    IF cond THEN Scaled(r, TRUE, 7, 10, Flag("far_from_rim")) ELSE Bonus(r, TRUE, Pts(5), EmptyInfo)

\* lines 777-784: the early return below 35 comes before the cap
CupHandleCap(r) ==
    IF r.confidence < Pts(35) THEN Result(r.confidence, r.info) ELSE CapByVolume(r)

\* lines 719-784, on the cup's rim and the handle's low
CupHandleScore(s, e, r, cup_right, rim, handle_low, handle_days) ==
    LET current_price == Back(s, 1).c
        r1 == CupHandleHandle(r, cup_right, handle_low, handle_days)
        r2 == FarFromRim(r1, current_price * 100 < rim * 70)
        r3 == Scaled(r2, handle_days > 0 /\ current_price * 100 < handle_low * 90, 8, 10,
                     Flag("below_handle"))
        r4 == Bonus(r3, e.macd_bullish, Pts(10), Flag("macd_bullish"))
    IN CupHandleCap(ScoreVolume(s, "Cup Handle", r4))

\* lines 705-719, on the cup's start, bottom and right side
CupHandleFound(s, e, cup_start, cup_bottom, cup_right, handle, handle_days) ==
    \* cup_depth < min_cup_depth (0.08) or > max_cup_depth (0.60)
    IF \/ (Max2(cup_start, cup_right) - cup_bottom) * 100 < 8 * Max2(cup_start, cup_right)
       \/ (Max2(cup_start, cup_right) - cup_bottom) * 100 > 60 * Max2(cup_start, cup_right)
    THEN Result(0, EmptyInfo)
    ELSE IF cup_right * 100 < cup_start * 75 THEN Result(0, EmptyInfo)
    ELSE CupHandleScore(s, e,
                        Result(Pts(25),
                               "cup_depth" :> PctTenths(Max2(cup_start, cup_right) - cup_bottom,
                                                        Max2(cup_start, cup_right))),
                        cup_right, Max2(cup_start, cup_right), LowMin(s, handle), handle_days)

\* lines 699-703, on max_lookback and handle_days
CupHandleWindows(s, e, max_lookback, handle_days) ==
    LET cup == IF handle_days > 0 THEN SliceIdx(s, max_lookback, handle_days)
               ELSE TailIdx(s, max_lookback)
        handle == IF handle_days > 0 THEN TailIdx(s, handle_days) ELSE TailIdx(s, 5)
    IN IF Cardinality(cup) < 15 THEN Result(0, EmptyInfo)
       ELSE CupHandleFound(s, e, s[SetMin(cup)].c, LowMin(s, cup), s[SetMax(cup)].c,
                           handle, handle_days)

detect_cup_handle(s, e) ==
    IF N(s) < 30 THEN Result(0, EmptyInfo)
    ELSE CupHandleWindows(s, e, Min2(100, N(s) - 3), Min2(30, Min2(100, N(s) - 3) \div 3))

-----------------------------------------------------------------------------
(* pattern_detectors.py: detect_inverse_head_shoulders *)

\* positions are 0-based positions in recent_data, as in the code
Lo(r, j) == r[j + 1].l
Hi(r, j) == r[j + 1].h

\* lines 815-819 and 831-835: the local minima of seg[from..to) above the head;
\* seg is the 0-based position range a..b of recent_data, i runs over range(2, len - 2)
ShoulderCandidates(r, a, b, head_price) ==
    {j \in (a + 2) .. (b - 2) :
        /\ \A k \in (j - 2) .. (j + 2) : Lo(r, j) <= Lo(r, k)
        /\ Lo(r, j) > head_price}

\* the lowest price of a candidate list
LowestPrice(r, C) == SetMin({Lo(r, j) : j \in C})

\* min(candidates, key=price): the first candidate of the lowest price
LowestCandidate(r, C) == SetMin({j \in C : Lo(r, j) = LowestPrice(r, C)})

\* line 916
IHSAgeLimit(tf) == IF tf = "1wk" THEN 25 ELSE 35

\* lines 877-881; head_depth = depth_num / shoulders
IHSDepth(r, depth_num, shoulders) ==
    Bonus(Bonus(r, depth_num * 100 >= 5 * shoulders, Pts(15), EmptyInfo),
          depth_num * 100 >= 10 * shoulders, Pts(10), Flag("good_head_depth"))

\* lines 884-893; dist = 2 * |neckline_price - current_price|
IHSNeckline(r, dist, current_price) ==
    IF dist * 100 < 5 * 2 * current_price THEN Bonus(r, TRUE, Pts(15), Flag("near_breakout"))
    ELSE Bonus(r, dist * 100 < 10 * 2 * current_price, Pts(10), Flag("approaching_neckline"))

\* lines 914-921: bars_since_pattern is taken on len(data), not len(recent_data)
IHSAging(r, bars_since_pattern, tf) ==
    Scaled(r, bars_since_pattern > IHSAgeLimit(tf), 8, 10,
           Flag("pattern_aging") @@ ("age_bars" :> bars_since_pattern))

\* line 910 tests pattern_info after the update, against the literal 70
IHSCap(r) == Cap(r, r.info, 70)

\* lines 877-928
IHSScore(s, e, tf, r0, head_price, rs, depth_num, shoulders, neck2, current_price) ==
    LET r1 == IHSDepth(r0, depth_num, shoulders)
        r2 == IHSNeckline(r1, Abs(neck2 - 2 * current_price), current_price)
        r3 == Bonus(r2, e.macd_bullish, Pts(10), Flag("macd_bullish"))
        r4 == Bonus(r3, e.hist_rising, Pts(10), Flag("momentum_improving"))
        r5 == IHSCap(ScoreVolume(s, "Inverse Head Shoulders", r4))
        r6 == IHSAging(r5, N(s) - rs, tf)
    IN Scaled(r6, current_price * 100 < head_price * 97, 6, 10,
              "below_head_warning" :> "Price near/below head level")

\* lines 866-874
IHSInfo(rec, head_price, head_idx_pos, ls, rs, depth_num, shoulders) ==
    ("left_shoulder_price" :> Lo(rec, ls)) @@ ("head_price" :> head_price)
        @@ ("right_shoulder_price" :> Lo(rec, rs))
        @@ ("left_neck_price" :> SetMax({Hi(rec, j) : j \in ls .. (head_idx_pos - 1)}))
        @@ ("right_neck_price" :> SetMax({Hi(rec, j) : j \in head_idx_pos .. (rs - 1)}))
        @@ ("head_depth_percent" :> PctTenths(depth_num, shoulders))
        @@ ("pattern_width_bars" :> rs - ls)

\* lines 853-874; shoulders = 2 * avg_shoulder_price, depth_num / shoulders = head_depth
IHSMetrics(s, e, tf, rec, head_price, head_idx_pos, ls, rs, depth_num, shoulders) ==
    IF depth_num * 100 < 2 * shoulders \/ rs - ls < 8 \/ rs - ls > 100
    THEN Result(0, EmptyInfo)
    ELSE IHSScore(s, e, tf,
                  Result(Pts(50),
                         IHSInfo(rec, head_price, head_idx_pos, ls, rs, depth_num, shoulders)),
                  head_price, rs, depth_num, shoulders,
                  SetMax({Hi(rec, j) : j \in ls .. (head_idx_pos - 1)})
                      + SetMax({Hi(rec, j) : j \in head_idx_pos .. (rs - 1)}),
                  Back(s, 1).c)

\* lines 843-856, on the two shoulders' positions
IHSShoulders(s, e, tf, rec, head_price, head_idx_pos, ls, rs) ==
    IF (head_idx_pos - ls) < 2 \/ (rs - head_idx_pos) < 2 THEN Result(0, EmptyInfo)
    ELSE IHSMetrics(s, e, tf, rec, head_price, head_idx_pos, ls, rs,
                    Lo(rec, ls) + Lo(rec, rs) - 2 * head_price, Lo(rec, ls) + Lo(rec, rs))

\* lines 821-840, on the two candidate lists
IHSCandidates(s, e, tf, rec, head_price, head_idx_pos, left_candidates, right_candidates) ==
    IF left_candidates = {} \/ right_candidates = {} THEN Result(0, EmptyInfo)
    ELSE IHSShoulders(s, e, tf, rec, head_price, head_idx_pos,
                      LowestCandidate(rec, left_candidates),
                      LowestCandidate(rec, right_candidates))

\* lines 807-835, on the head's position
IHSHead(s, e, tf, rec, head_price, head_idx_pos) ==
    IF head_idx_pos < 5 \/ head_idx_pos > Len(rec) - 5 THEN Result(0, EmptyInfo)
    ELSE IHSCandidates(s, e, tf, rec, head_price, head_idx_pos,
                       ShoulderCandidates(rec, 0, head_idx_pos - 1, head_price),
                       ShoulderCandidates(rec, head_idx_pos, Len(rec) - 1, head_price))

\* lines 798-804: idxmin is the first position of the lowest low
IHSRecent(s, e, tf, rec, head_price) ==
    IF Len(rec) < 20 THEN Result(0, EmptyInfo)
    ELSE IHSHead(s, e, tf, rec, head_price,
                 SetMin({j \in 0 .. (Len(rec) - 1) : Lo(rec, j) = head_price}))

detect_inverse_head_shoulders(s, e, tf) ==
    IF N(s) < 30 THEN Result(0, EmptyInfo)
    ELSE IHSRecent(s, e, tf, SubSeq(s, N(s) - Min2(60, N(s)) + 1, N(s)),
                   LowMin(s, TailIdx(s, Min2(60, N(s)))))

-----------------------------------------------------------------------------
(* pattern_detectors.py: detect_consolidation_breakout *)

\* lines 161-173
ConsolidationWindow(tf) ==
    IF tf = "4h" THEN [box_bars |-> BOX_BARS_4H, label |-> "4-Hour"]
    ELSE IF tf = "weekly" THEN [box_bars |-> BOX_BARS_WEEKLY, label |-> "Weekly"]
    ELSE [box_bars |-> BOX_BARS_DAILY, label |-> "Daily"]

\* lines 215-218: recent_nr4 + recent_nr7
NRHits(s) ==
    Cardinality({i \in TailIdx(s, NR_CLUSTER_LOOKBACK) : NRFlag(s, i, 4)})
        + Cardinality({i \in TailIdx(s, NR_CLUSTER_LOOKBACK) : NRFlag(s, i, 7)})

\* Volume < vol_dryup_mult (0.7) * Vol50, false on a NaN average
DryBar(v, vol50) == IF vol50 = NaN THEN FALSE ELSE v * 500 < 7 * vol50

\* line 242: vol_dryup_bars over data.tail(vol_dryup_k)
DryBars(s) == Cardinality({i \in TailIdx(s, VOL_DRYUP_K) : DryBar(s[i].v, Vol50x50(s, i))})

\* box_width_pct <= box_width_max (0.06)
TightBox(box_high, box_low, prev_close) == (box_high - box_low) * 100 <= 6 * prev_close

\* vol_dryup_ratio >= vol_dryup_threshold (0.6), on the count of the dry bars
\* among the vol_dryup_k last ones
VolDryup(dry_bars) == dry_bars * 10 >= 6 * VOL_DRYUP_K

\* lines 195-252: consolidation_flags; e.low_atr, e.tight_bb and e.ma_pinch are the
\* outcomes of the percentile and EMA comparisons (false when the value is NaN)
ConsolidationFlags(e, nr_cluster, tight_box, vol_dryup) ==
    (IF e.low_atr THEN {"low_atr"} ELSE {})
        \cup (IF e.tight_bb THEN {"tight_bb"} ELSE {})
        \cup (IF nr_cluster THEN {"nr_cluster"} ELSE {})
        \cup (IF tight_box THEN {"tight_box"} ELSE {})
        \cup (IF e.ma_pinch THEN {"ma_pinch"} ELSE {})
        \cup (IF vol_dryup THEN {"volume_dryup"} ELSE {})

\* lines 195-252: the score and the info of the six criteria
ConsolidationCriteria(r, s, e, box, box_high, box_low, prev_close, nr_hits, dry_bars) ==
    LET r1 == Bonus(r, e.low_atr, Pts(15), "low_atr_percentile" :> "pct")
        r2 == Bonus(r1, e.tight_bb, Pts(15), "tight_bb_percentile" :> "pct")
        r3 == Bonus(r2, nr_hits >= NR_CLUSTER_MIN_HITS, Pts(NR_CLUSTER_BONUS),
                    "nr_cluster" :> nr_hits)
        r4 == Bonus(r3, TightBox(box_high, box_low, prev_close), Pts(CONSOLIDATION_BONUS),
                    "tight_box" :> PctTenths(box_high - box_low, prev_close))
        r5 == Bonus(r4, e.ma_pinch, Pts(MA_PINCH_BONUS), "ma_pinch" :> "pct")
    IN Bonus(r5, VolDryup(dry_bars), Pts(VOLUME_DRYUP_BONUS),
             Flag("vol_dryup")
             @@ ("vol_dryup_ratio" :> PctTenths(dry_bars, VOL_DRYUP_K))
             @@ ("consolidation_avg_volume" :> <<VolSum(s, box), Cardinality(box)>>))

\* line 266
PriceBreakout(s, box_high) == Back(s, 1).c > box_high

\* current_tr > breakout_tr_mult (1.5) * avg_tr, avg_tr = TR20.iloc[-2]
ExceedsTR(current_tr, avg_tr_x20) ==
    IF avg_tr_x20 = NaN THEN FALSE ELSE current_tr * 200 > 15 * avg_tr_x20

\* lines 269-276
TRBreakout(s) == ExceedsTR(TrueRange(s, N(s)), TR20x20(s, N(s) - 1))

\* current_volume >= breakout_vol_mult (1.5) * avg_volume, avg_volume = Vol50
ReachesVolume(current_volume, avg_volume_x50) ==
    IF avg_volume_x50 = NaN THEN FALSE ELSE current_volume * 500 >= 15 * avg_volume_x50

\* lines 279-286
VolBreakout(s) == ReachesVolume(Back(s, 1).v, Vol50x50(s, N(s)))

\* the grades taken from the expansions of the true range and of the volume
\* alone, the variant BreakoutBonusByTier is measured against
BreakoutGradeWithoutPrice(r, price_breakout, tr_breakout, vol_breakout) ==
    IF tr_breakout /\ vol_breakout
    THEN Bonus(r, TRUE, Pts(BREAKOUT_BONUS),
               Flag("breakout_confirmed") @@ ("breakout_type" :> "Full confirmation"))
    ELSE IF tr_breakout \/ vol_breakout
    THEN Bonus(r, TRUE, Times(Pts(BREAKOUT_BONUS), 7, 10),
               Flag("partial_breakout") @@ ("breakout_type" :> "Partial confirmation"))
    ELSE Bonus(r, price_breakout, Times(Pts(BREAKOUT_BONUS), 4, 10),
               Flag("price_breakout_only") @@ ("breakout_type" :> "Price breakout only"))

\* lines 289-308: the three grades of a breakout
BreakoutGrade(r, price_breakout, tr_breakout, vol_breakout) ==
    IF price_breakout /\ tr_breakout /\ vol_breakout
    THEN Bonus(r, TRUE, Pts(BREAKOUT_BONUS),
               Flag("breakout_confirmed") @@ ("breakout_type" :> "Full confirmation"))
    ELSE IF price_breakout /\ (tr_breakout \/ vol_breakout)
    THEN Bonus(r, TRUE, Times(Pts(BREAKOUT_BONUS), 7, 10),
               Flag("partial_breakout") @@ ("breakout_type" :> "Partial confirmation"))
    ELSE Bonus(r, price_breakout, Times(Pts(BREAKOUT_BONUS), 4, 10),
               Flag("price_breakout_only") @@ ("breakout_type" :> "Price breakout only"))

\* lines 262-312
ConsolidationBreakout(r, s, price_breakout, tr_breakout, vol_breakout) ==
    LET r1 == Note(r, IF tr_breakout
                      THEN "tr_expansion" :> <<TrueRange(s, N(s)) * 20, TR20x20(s, N(s) - 1)>>
                      ELSE EmptyInfo)
        r2 == Note(r1, IF vol_breakout
                       THEN "vol_expansion" :> <<Back(s, 1).v * 50, Vol50x50(s, N(s))>>
                       ELSE EmptyInfo)
        r3 == BreakoutGrade(r2, price_breakout, tr_breakout, vol_breakout)
    IN Note(r3, ("price_breakout" :> price_breakout) @@ ("tr_breakout" :> tr_breakout)
                @@ ("vol_breakout" :> vol_breakout))

\* lines 323-331: Avg_Dollar_Volume.tail(20).mean() >= min_liquidity_usd; the
\* mean skips the NaN rows
SufficientLiquidity(s) ==
    AvgDollarTail(s, SetMin(TailIdx(s, 20)), SetMax(TailIdx(s, 20)))
        >= (MIN_LIQUIDITY_USD \div SharesPerUnit) * 20
               * Cardinality({i \in TailIdx(s, 20) : i >= 20})

\* lines 323-331
ConsolidationLiquidity(r, liquid) ==
    IF liquid THEN Bonus(r, TRUE, Pts(5), Flag("sufficient_liquidity"))
    ELSE Scaled(r, TRUE, 9, 10, "limited_liquidity" :> "below")

\* lines 333-340
ConsolidationPosition(r, current_price, box_high, box_low) ==
    \* current_price >= box_high * 0.995
    IF current_price * 1000 >= box_high * 995
    THEN Bonus(r, TRUE, Pts(10), Flag("near_breakout"))
    ELSE Bonus(r, 2 * current_price >= box_high + box_low, Pts(5), Flag("above_midpoint"))

\* lines 352-369
ConsolidationAge(r, confirmed, box_bars, tf) ==
    IF confirmed
    THEN Scaled(r, 1 > ConsolidationAgeLimit(tf), 8, 10, Flag("breakout_aging"))
    ELSE Scaled(r, box_bars > MAX_CONSOLIDATION_BARS, 7, 10,
                Flag("consolidation_stale") @@ ("consolidation_age" :> box_bars))

\* lines 371-377: min_box_height 0.02, max_box_height 0.15
ConsolidationQuality(r, width_num, width_den) ==
    IF width_num * 100 < 2 * width_den
    THEN Scaled(r, TRUE, 8, 10, "very_tight_range" :> PctTenths(width_num, width_den))
    ELSE Scaled(r, width_num * 100 > 15 * width_den, 6, 10,
                "wide_range" :> PctTenths(width_num, width_den))

\* lines 262-377, on the three breakout tests
ConsolidationScore(s, e, tf, box_bars, r, box_high, box_low, prev_close, price_breakout, tr_breakout, vol_breakout) ==
    LET r1 == ConsolidationBreakout(r, s, price_breakout, tr_breakout, vol_breakout)
        r2 == Bonus(r1, e.macd_bullish, Pts(10), Flag("macd_bullish"))
        r3 == Bonus(r2, e.hist_rising, Pts(8), Flag("momentum_improving"))
        r4 == ConsolidationLiquidity(r3, SufficientLiquidity(s))
        r5 == ConsolidationPosition(r4, Back(s, 1).c, box_high, box_low)
        r6 == CapByVolume(ScoreVolume(s, "Consolidation Breakout", r5))
        r7 == ConsolidationAge(r6, price_breakout /\ tr_breakout /\ vol_breakout,
                               box_bars, tf)
    IN ConsolidationQuality(r7, box_high - box_low, prev_close)

\* the base confidence and the breakout analysis without the test on the
\* criteria, the variant NoCriterionNoScore is measured against
ConsolidationFoundAlways(s, e, tf, box_bars, r, flags, box_high, box_low, prev_close) ==
    ConsolidationScore(s, e, tf, box_bars,
                       Bonus(r, TRUE, Pts(MIN_CONFIDENCE_BASE),
                             "consolidation_criteria" :> flags),
                       box_high, box_low, prev_close,
                       PriceBreakout(s, box_high), TRBreakout(s), VolBreakout(s))

\* lines 254-260: at least one criterion, then the base confidence
ConsolidationFound(s, e, tf, box_bars, r, flags, box_high, box_low, prev_close) ==
    IF flags = {} THEN r
    ELSE ConsolidationScore(s, e, tf, box_bars,
                            Bonus(r, TRUE, Pts(MIN_CONFIDENCE_BASE),
                                  "consolidation_criteria" :> flags),
                            box_high, box_low, prev_close,
                            PriceBreakout(s, box_high), TRBreakout(s), VolBreakout(s))

\* lines 195-252, on the counts of the NR bars and of the dry bars
ConsolidationMeasured(s, e, tf, w, box, box_high, box_low, prev_close, nr_hits, dry_bars) ==
    ConsolidationFound(s, e, tf, w.box_bars,
                       ConsolidationCriteria(
                           Result(0, ("box_high" :> box_high) @@ ("box_low" :> box_low)
                                     @@ ("box_width_pct" :> <<box_high - box_low, prev_close>>)
                                     @@ ("box_bars" :> w.box_bars) @@ ("timeframe" :> w.label)),
                           s, e, box, box_high, box_low, prev_close, nr_hits, dry_bars),
                       ConsolidationFlags(e, nr_hits >= NR_CLUSTER_MIN_HITS,
                                          TightBox(box_high, box_low, prev_close),
                                          VolDryup(dry_bars)),
                       box_high, box_low, prev_close)

\* lines 185-193, on the box and its dimensions
ConsolidationBox(s, e, tf, w, box, box_high, box_low, prev_close) ==
    ConsolidationMeasured(s, e, tf, w, box, box_high, box_low, prev_close,
                          NRHits(s), DryBars(s))

\* the box taken over the last box_bars bars, the current bar included, the
\* variant BoxExcludesCurrentBar is measured against
ConsolidationDataWithCurrent(s, e, tf, w) ==
    IF N(s) < w.box_bars + 10 THEN Result(0, "timeframe" :> w.label)
    ELSE ConsolidationBox(s, e, tf, w, TailIdx(s, w.box_bars),
                          HighMax(s, TailIdx(s, w.box_bars)),
                          LowMin(s, TailIdx(s, w.box_bars)), Back(s, 1).c)

\* lines 176-183; the box is data.iloc[-(box_bars+1):-1]
ConsolidationData(s, e, tf, w) ==
    IF N(s) < w.box_bars + 10 THEN Result(0, "timeframe" :> w.label)
    ELSE ConsolidationBox(s, e, tf, w, SliceIdx(s, w.box_bars + 1, 1),
                          HighMax(s, SliceIdx(s, w.box_bars + 1, 1)),
                          LowMin(s, SliceIdx(s, w.box_bars + 1, 1)), Back(s, 2).c)

detect_consolidation_breakout(s, e, tf) ==
    IF N(s) < 30 THEN Result(0, EmptyInfo)
    ELSE ConsolidationData(s, e, tf, ConsolidationWindow(tf))

-----------------------------------------------------------------------------
(* pattern_detectors.py: detect_pattern *)

\* config.py: DEFAULT_MIN_CONFIDENCE
DEFAULT_MIN_CONFIDENCE == 55
DETECTION_THRESHOLD == 45

\* one multiplier for every pattern type, the variant MultiplierBeforeClamp is
\* measured against
PatternMultiplierFlat(pattern_type) == 100

\* lines 946-968: the per-pattern multiplier, in hundredths
PatternMultiplier(pattern_type) ==
    CASE pattern_type = "Bull Flag" -> 105
      [] pattern_type = "Cup Handle" -> 110
      [] OTHER -> 100

\* lines 946-968: the detector the pattern type is routed to
Detector(s, pattern_type, e, tf) ==
    CASE pattern_type = "Consolidation Breakout" -> detect_consolidation_breakout(s, e, tf)
      [] pattern_type = "Flat Top Breakout" -> detect_flat_top(s, e)
      [] pattern_type = "Bull Flag" -> detect_bull_flag(s, e)
      [] pattern_type = "Cup Handle" -> detect_cup_handle(s, e)
      [] pattern_type = "Inside Bar" -> detect_inside_bar(s, e, tf)
      [] pattern_type = "Inverse Head Shoulders" -> detect_inverse_head_shoulders(s, e, tf)
      [] OTHER -> Result(0, EmptyInfo)

\* the multiplier without the clamp, the variant ConfidenceInRange is measured against
ScaleUnclamped(conf, pattern_type) == Times(conf, PatternMultiplier(pattern_type), 100)

\* confidence = min(confidence * multiplier, 100)
Scale(conf, pattern_type) == Min2(Times(conf, PatternMultiplier(pattern_type), 100), Pts(100))

\* a threshold of 55, DEFAULT_MIN_CONFIDENCE, the variant DetectedIffThreshold is
\* measured against
IsDetectedByDefault(conf) == conf >= Pts(DEFAULT_MIN_CONFIDENCE)

\* line 975
IsDetected(conf) == conf >= Pts(DETECTION_THRESHOLD)

\* lines 970-973: the MACD series attached for charting
MacdInfo(e) ==
    ("macd_line" :> e.macd_bullish) @@ ("signal_line" :> e.macd_bullish)
        @@ ("histogram" :> e.hist_rising)

\* lines 946-975, on the detector's result d; raw keeps d itself
Detected(d, pattern_type, e) ==
    [detected |-> IsDetected(Scale(d.confidence, pattern_type)),
     confidence |-> Scale(d.confidence, pattern_type),
     info |-> MacdInfo(e) @@ d.info,
     raw |-> d]

detect_pattern(s, pattern_type, e, tf) ==
    IF N(s) < 10
    THEN [detected |-> FALSE, confidence |-> 0, info |-> EmptyInfo,
          raw |-> Result(0, EmptyInfo)]
    ELSE Detected(Detector(s, pattern_type, e, tf), pattern_type, e)

-----------------------------------------------------------------------------
(* risk_calculator.py.  A Levels value is a function from keys to values.  A  *)
(* price or an amount is a whole number of 1/PU of the series' price unit; a  *)
(* ratio is a pair <<numerator, denominator>>.  A product with a decimal      *)
(* constant is taken by MulDiv, which is exact whenever the result is a whole *)
(* number of 1/PU and is rounded down to 1/PU otherwise.                      *)

PU == 1000 * 1000

\* x * num / den on a non-negative x, without an intermediate product above x * num / den
MulDiv(x, num, den) == (x \div den) * num + ((x % den) * num) \div den

\* config.py: RISK_MULTIPLIERS
VOLATILITY_STOP_X10 == 15
MinStopDistancePct10(pattern_type) ==
    CASE pattern_type = "Flat Top Breakout" -> 30
      [] pattern_type = "Bull Flag" -> 40
      [] pattern_type = "Cup Handle" -> 50
      [] pattern_type = "Inverse Head Shoulders" -> 40

\* config.py: MIN_RISK_REWARD_RATIOS, in tenths
MIN_RR_TARGET1 == 15
MIN_RR_TARGET2 == 25

\* config.py: INSIDE_BAR_CONFIG, in hundredths
IB_ENTRY_BUFFER == 105
IB_STOP_BUFFER == 95
IB_TARGET2_MULTIPLIER == 113
\* the multiplier of target 2 taken for target 3, the variant InsideBarLevelsFixed
\* is measured against
IB_TARGET3_AS_TARGET2 == IB_TARGET2_MULTIPLIER
IB_TARGET3_MULTIPLIER == 121

\* reward / risk_amount if risk_amount > 0 else 0
Ratio(reward, risk) == IF risk > 0 THEN <<reward, risk>> ELSE <<0, 1>>

\* no ratio is below a minimum, the variant TargetsPushedOutward is measured against
RatioNeverBelow(r, tenths) == FALSE

\* ratio < tenths / 10
RatioBelow(r, tenths) == r[1] * 10 < tenths * r[2]

\* pattern_info.get(key, default), the stored price being whole and the default in 1/PU
GetPrice(m, k, default) == IF k \in DOMAIN m THEN m[k] * PU ELSE default

\* lines 28-74
calculate_inside_bar_levels(pattern_info, current_price) ==
    LET inside_bar_high == GetPrice(pattern_info, "inside_bar_high", current_price * PU)
        inside_bar_low == GetPrice(pattern_info, "inside_bar_low",
                                   MulDiv(current_price * PU, 95, 100))
        mother_bar_high == GetPrice(pattern_info, "mother_bar_high",
                                    MulDiv(current_price * PU, 105, 100))
        entry == MulDiv(inside_bar_high, IB_ENTRY_BUFFER, 100)
        stop == MulDiv(inside_bar_low, IB_STOP_BUFFER, 100)
        target1 == mother_bar_high
        target2 == MulDiv(mother_bar_high, IB_TARGET2_MULTIPLIER, 100)
        target3 == MulDiv(mother_bar_high, IB_TARGET3_MULTIPLIER, 100)
        risk_amount == entry - stop
        reward1 == target1 - entry
        reward2 == target2 - entry
        reward3 == target3 - entry
    IN ("entry" :> entry) @@ ("stop" :> stop)
       @@ ("target1" :> target1) @@ ("target2" :> target2) @@ ("target3" :> target3)
       @@ ("risk" :> risk_amount)
       @@ ("reward1" :> reward1) @@ ("reward2" :> reward2) @@ ("reward3" :> reward3)
       @@ ("rr_ratio1" :> Ratio(reward1, risk_amount))
       @@ ("rr_ratio2" :> Ratio(reward2, risk_amount))
       @@ ("rr_ratio3" :> Ratio(reward3, risk_amount))
       @@ ("target_method" :> "Inside Bar Fixed Targets")
       @@ ("measured_move" :> TRUE) @@ ("volatility_adjusted" :> FALSE)
       @@ ("has_target3" :> TRUE)

\* lines 256-301
create_standard_levels_dict(entry, stop, target1, target2, target_method) ==
    LET risk0 == entry - stop
        ok == risk0 > 0
        \* rr1 < MIN_RISK_REWARD_RATIOS['target1'], rr2 < MIN_RISK_REWARD_RATIOS['target2']
        low1 == RatioBelow(<<target1 - entry, risk0>>, MIN_RR_TARGET1)
        low2 == RatioBelow(<<target2 - entry, risk0>>, MIN_RR_TARGET2)
        risk_amount == IF ok THEN risk0 ELSE MulDiv(entry, 5, 100)
        stop1 == IF ok THEN stop ELSE entry - risk_amount
        t1 == IF ok THEN (IF low1 THEN entry + MulDiv(risk0, MIN_RR_TARGET1, 10) ELSE target1)
              ELSE entry + risk_amount * 2
        t2 == IF ok THEN (IF low2 THEN entry + MulDiv(risk0, MIN_RR_TARGET2, 10) ELSE target2)
              ELSE entry + risk_amount * 3
        reward1 == t1 - entry
        reward2 == t2 - entry
    IN ("entry" :> entry) @@ ("stop" :> stop1)
       @@ ("target1" :> t1) @@ ("target2" :> t2)
       @@ ("risk" :> risk_amount) @@ ("reward1" :> reward1) @@ ("reward2" :> reward2)
       @@ ("rr_ratio1" :> Ratio(reward1, risk_amount))
       @@ ("rr_ratio2" :> Ratio(reward2, risk_amount))
       @@ ("target_method" :> target_method)
       @@ ("measured_move" :> TRUE) @@ ("volatility_adjusted" :> TRUE)
       @@ ("has_target3" :> FALSE)

\* the default levels with the entry_buffer (0.2%) and the stop_buffer (0.5%) of
\* PATTERN_PARAMS["Consolidation Breakout"], the variant ConsolidationLevelsDefault
\* is measured against
calculate_default_levels_buffered(current_price) ==
    LET entry == MulDiv(current_price * PU, 1002, 1000)
        stop == MulDiv(current_price * PU, 995, 1000)
        target1 == entry + (entry - stop) * 2
        target2 == entry + (entry - stop) * 3
    IN create_standard_levels_dict(entry, stop, target1, target2, "Traditional 2:1 & 3:1")

\* lines 246-254
calculate_default_levels(current_price) ==
    LET entry == MulDiv(current_price * PU, 101, 100)
        stop == MulDiv(current_price * PU, 95, 100)
        target1 == entry + (entry - stop) * 2
        target2 == entry + (entry - stop) * 3
    IN create_standard_levels_dict(entry, stop, target1, target2, "Traditional 2:1 & 3:1")

\* lines 11-13: (High.tail(20) - Low.tail(20)).mean() * volatility_stop
VolatilityStopDistance(s) ==
    LET T == TailIdx(s, 20)
        sum == SumOver(s, "h", SetMin(T), SetMax(T)) - SumOver(s, "l", SetMin(T), SetMax(T))
    IN MulDiv(sum * PU, VOLATILITY_STOP_X10, 10 * Cardinality(T))

\* the step without the test on the distance of a stop below the entry, the
\* variant MinimumStopDistanceKept is measured against
EnsureMinStopLoose(entry, stop, pattern_type) ==
    IF stop >= entry THEN entry - MulDiv(entry, MinStopDistancePct10(pattern_type), 1000)
    ELSE stop

\* the "ensure minimum stop distance" step shared by lines 94-99, 143-147, 173-177, 219-223
EnsureMinStop(entry, stop, pattern_type) ==
    LET min_stop_distance == MulDiv(entry, MinStopDistancePct10(pattern_type), 1000)
    IN IF stop >= entry THEN entry - min_stop_distance
       ELSE IF (entry - stop) < min_stop_distance THEN entry - min_stop_distance
       ELSE stop

\* float(pattern_info[key].replace('%', '')) / 100: the detectors store the
\* percentage as a number of tenths of a percent; Unparseable stands for a
\* string float() rejects (ValueError)
Unparseable == 0 - 1
Parses(v) == v # Unparseable

\* lines 135-162
calculate_flat_top_levels(s, pattern_info, current_price, volatility_stop_distance) ==
    LET entry == GetPrice(pattern_info, "resistance_level", MulDiv(current_price * PU, 101, 100))
        recent_low == LowMin(s, TailIdx(s, 15))
        volatility_stop == entry - volatility_stop_distance
        traditional_stop == MulDiv(recent_low * PU, 98, 100)
        stop == EnsureMinStop(entry, Max2(volatility_stop, traditional_stop), "Flat Top Breakout")
        support_level == LowMax(s, TailIdx(s, 20)) * PU
        triangle_height == Max2(entry - support_level, MulDiv(entry, 5, 100))
        risk == entry - stop
        measured == Has(pattern_info, "resistance_level")
        target1 == IF measured THEN entry + triangle_height ELSE entry + risk * 2
        target2 == IF measured THEN entry + MulDiv(triangle_height, 1618, 1000)
                   ELSE entry + MulDiv(risk, 35, 10)
    IN create_standard_levels_dict(entry, stop, target1, target2, "Triangle Height Projection")

\* lines 164-199
calculate_bull_flag_levels(s, pattern_info, current_price, volatility_stop_distance) ==
    LET flag_high == HighMax(s, TailIdx(s, 15))
        entry == MulDiv(flag_high * PU, 1005, 1000)
        flag_low == LowMin(s, TailIdx(s, 12))
        volatility_stop == entry - volatility_stop_distance
        traditional_stop == MulDiv(flag_low * PU, 98, 100)
        stop == EnsureMinStop(entry, Max2(volatility_stop, traditional_stop), "Bull Flag")
        measured == Has(pattern_info, "flagpole_gain") /\ Parses(pattern_info["flagpole_gain"])
        \* entry / (1 + flagpole_pct)
        flagpole_start_price == MulDiv(entry, 1000, 1000 + pattern_info["flagpole_gain"])
        flagpole_height == Max2(entry - flagpole_start_price, MulDiv(entry, 8, 100))
        risk == entry - stop
        target1 == IF measured THEN entry + flagpole_height ELSE entry + MulDiv(risk, 25, 10)
        target2 == IF measured THEN entry + MulDiv(flagpole_height, 1382, 1000)
                   ELSE entry + risk * 4
    IN create_standard_levels_dict(entry, stop, target1, target2, "Flagpole Height Projection")

\* lines 201-244
calculate_cup_handle_levels(s, pattern_info, current_price, volatility_stop_distance) ==
    LET measured == Has(pattern_info, "cup_depth") /\ Parses(pattern_info["cup_depth"])
        \* current_price / (1 - cup_depth_pct * 0.3)
        estimated_rim == MulDiv(current_price * PU, 10000, 10000 - 3 * pattern_info["cup_depth"])
        entry == IF measured THEN MulDiv(estimated_rim, 1005, 1000)
                 ELSE MulDiv(current_price * PU, 102, 100)
        handle_low == LowMin(s, TailIdx(s, 15))
        volatility_stop == entry - volatility_stop_distance
        traditional_stop == MulDiv(handle_low * PU, 97, 100)
        stop == EnsureMinStop(entry, Max2(volatility_stop, traditional_stop), "Cup Handle")
        cup_depth_dollars == Max2(MulDiv(entry, pattern_info["cup_depth"], 1000),
                                  MulDiv(entry, 10, 100))
        risk == entry - stop
        target1 == IF measured THEN entry + cup_depth_dollars ELSE entry + risk * 2
        target2 == IF measured THEN entry + MulDiv(cup_depth_dollars, 1618, 1000)
                   ELSE entry + risk * 3
    IN create_standard_levels_dict(entry, stop, target1, target2, "Cup Depth Projection")

\* lines 76-133
calculate_inverse_head_shoulders_levels(s, pattern_info, current_price, volatility_stop_distance) ==
    LET near == MulDiv(current_price * PU, 101, 100)
        left_neck_price == GetPrice(pattern_info, "left_neck_price", near)
        right_neck_price == GetPrice(pattern_info, "right_neck_price", near)
        neckline_price == (left_neck_price + right_neck_price) \div 2
        entry == MulDiv(neckline_price, 1005, 1000)
        right_shoulder_price == GetPrice(pattern_info, "right_shoulder_price",
                                         MulDiv(current_price * PU, 95, 100))
        head_price == GetPrice(pattern_info, "head_price", MulDiv(current_price * PU, 90, 100))
        volatility_stop == entry - volatility_stop_distance
        technical_stop == MulDiv(Min2(right_shoulder_price, head_price), 98, 100)
        stop == EnsureMinStop(entry, Max2(volatility_stop, technical_stop),
                              "Inverse Head Shoulders")
        present == Has(pattern_info, "head_depth_percent")
        measured == present /\ Parses(pattern_info["head_depth_percent"])
        head_depth_dollars == Max2(MulDiv(neckline_price, pattern_info["head_depth_percent"], 1000),
                                   MulDiv(entry, 8, 100))
        risk == entry - stop
        target1 == IF measured THEN entry + head_depth_dollars ELSE entry + risk * 2
        target2 == IF measured THEN entry + MulDiv(head_depth_dollars, 1618, 1000)
                   ELSE entry + MulDiv(risk, 35, 10)
        target_method == IF measured THEN "Head Depth Projection"
                         ELSE IF present THEN "Risk-Based Targets (Fallback)"
                         ELSE "Risk-Based Targets"
    IN create_standard_levels_dict(entry, stop, target1, target2, target_method)

\* the entry of the four measured-move calculators (lines 79-84, 137, 167, 203-212)
LevelEntry(s, pattern_info, pattern_type) ==
    LET current_price == Back(s, 1).c
        near == MulDiv(current_price * PU, 101, 100)
    IN CASE pattern_type = "Flat Top Breakout" ->
              GetPrice(pattern_info, "resistance_level", near)
         [] pattern_type = "Bull Flag" ->
              MulDiv(HighMax(s, TailIdx(s, 15)) * PU, 1005, 1000)
         [] pattern_type = "Cup Handle" ->
              IF Has(pattern_info, "cup_depth") /\ Parses(pattern_info["cup_depth"])
              THEN MulDiv(MulDiv(current_price * PU, 10000,
                                 10000 - 3 * pattern_info["cup_depth"]), 1005, 1000)
              ELSE MulDiv(current_price * PU, 102, 100)
         [] pattern_type = "Inverse Head Shoulders" ->
              MulDiv((GetPrice(pattern_info, "left_neck_price", near)
                        + GetPrice(pattern_info, "right_neck_price", near)) \div 2,
                     1005, 1000)

\* the structural stop of the four calculators (lines 89-90, 138, 169-170, 214-216)
StructuralStop(s, pattern_info, pattern_type) ==
    LET current_price == Back(s, 1).c
    IN CASE pattern_type = "Flat Top Breakout" ->
              MulDiv(LowMin(s, TailIdx(s, 15)) * PU, 98, 100)
         [] pattern_type = "Bull Flag" ->
              MulDiv(LowMin(s, TailIdx(s, 12)) * PU, 98, 100)
         [] pattern_type = "Cup Handle" ->
              MulDiv(LowMin(s, TailIdx(s, 15)) * PU, 97, 100)
         [] pattern_type = "Inverse Head Shoulders" ->
              MulDiv(Min2(GetPrice(pattern_info, "right_shoulder_price",
                                   MulDiv(current_price * PU, 95, 100)),
                          GetPrice(pattern_info, "head_price",
                                   MulDiv(current_price * PU, 90, 100))), 98, 100)

\* the two candidates of the stop: volatility_stop = entry - volatility_stop_distance
\* and the structural one (lines 86-91, 138-139, 169-171, 214-217)
StopCandidates(s, pattern_info, pattern_type) ==
    [entry |-> LevelEntry(s, pattern_info, pattern_type),
     volatility_stop |-> LevelEntry(s, pattern_info, pattern_type) - VolatilityStopDistance(s),
     technical_stop |-> StructuralStop(s, pattern_info, pattern_type)]

\* lines 8-26
calculate_levels(s, pattern_info, pattern_type) ==
    LET current_price == Back(s, 1).c
        volatility_stop_distance == VolatilityStopDistance(s)
    IN CASE pattern_type = "Inside Bar" ->
              calculate_inside_bar_levels(pattern_info, current_price)
         [] pattern_type = "Flat Top Breakout" ->
              calculate_flat_top_levels(s, pattern_info, current_price, volatility_stop_distance)
         [] pattern_type = "Bull Flag" ->
              calculate_bull_flag_levels(s, pattern_info, current_price, volatility_stop_distance)
         [] pattern_type = "Cup Handle" ->
              calculate_cup_handle_levels(s, pattern_info, current_price, volatility_stop_distance)
         [] pattern_type = "Inverse Head Shoulders" ->
              calculate_inverse_head_shoulders_levels(s, pattern_info, current_price,
                                                      volatility_stop_distance)
         [] OTHER -> calculate_default_levels(current_price)

\* lines 303-334
validate_levels(lv) ==
    LET i1 == IF lv["entry"] <= lv["stop"]
              THEN <<"Entry price must be above stop loss">> ELSE <<>>
        i2 == IF lv["target1"] <= lv["entry"]
              THEN <<"Target 1 must be above entry price">> ELSE <<>>
        i3 == IF lv["target2"] <= lv["target1"]
              THEN <<"Target 2 must be above Target 1">> ELSE <<>>
        i4 == IF RatioBelow(lv["rr_ratio1"], 10)
              THEN <<"Target 1 risk/reward ratio below 1:1">> ELSE <<>>
        i5 == IF RatioBelow(lv["rr_ratio2"], 20)
              THEN <<"Target 2 risk/reward ratio below 2:1">> ELSE <<>>
        i6 == IF Truthy(lv, "has_target3") /\ lv["target3"] <= lv["target2"]
              THEN <<"Target 3 must be above Target 2">> ELSE <<>>
        i7 == IF Truthy(lv, "has_target3") /\ RatioBelow(lv["rr_ratio3"], 25)
              THEN <<"Target 3 risk/reward ratio below 2.5:1">> ELSE <<>>
        issues == i1 \o i2 \o i3 \o i4 \o i5 \o i6 \o i7
    IN [valid |-> Len(issues) = 0, issues |-> issues]

-----------------------------------------------------------------------------
(* The inputs.  A series is the tail of a layout of MaxLen bars in segments,  *)
(* named by their distance from the last bar:                                 *)
(*   base 60..45 | C 44..26 | D 25 | E 24..16 | F 15..11 | G 10..3 | H 2 | I 1 *)
(* Each segment sits at one price level; a bar at level L with spread w has   *)
(* high L + w, low L - w and open/close L -/+ 1 (green) or L +/- 1 (red).     *)
(* H sits at the level of G.  An aged layout has a wide green bar 10 bars     *)
(* back and a tiny red bar inside it 9 bars back.                             *)

MaxLen == 60
Lengths == {8, 30, MaxLen}
LevelCrash == 65
LevelLow == 90
LevelMid == 100
LevelHigh == 112
SpreadTiny == 1
SpreadNormal == 2
SpreadWide == 5
SpreadHuge == 20

Bar(level, spread, green, vol) ==
    [o |-> IF green THEN level - 1 ELSE level + 1,
     h |-> level + spread,
     l |-> level - spread,
     c |-> IF green THEN level + 1 ELSE level - 1,
     v |-> vol]

\* the levels of the segments, the spreads of the last two bars, the colour of the last
AllShapes ==
    [C : {LevelMid, LevelHigh}, D : {LevelLow, LevelMid}, E : {LevelMid, LevelHigh},
     F : {LevelMid, LevelHigh}, G : {LevelMid, LevelHigh},
     hw : {SpreadNormal, SpreadWide, SpreadHuge},
     I : {LevelCrash, LevelLow, LevelMid, LevelHigh}, iw : {SpreadTiny, SpreadNormal},
     green : BOOLEAN, aged : BOOLEAN]

\* the shapes kept: a rally before the dip or a deep dip, not both; a flag above
\* its pole's end only after a rally; a wide bar H or a tiny bar I only where I
\* sits at H's level and is red; a huge bar H only on a flat layout; a falling
\* last bar red and a rising one green; a crash only after a deep dip; an aged
\* inside bar only on a flat layout
Shapes ==
    {sh \in AllShapes :
        /\ sh.C = LevelHigh => sh.D = LevelMid
        /\ sh.E = LevelMid => sh.F = LevelMid
        /\ sh.hw # SpreadNormal => sh.I = sh.G
        /\ sh.iw = SpreadTiny => (sh.hw # SpreadNormal /\ ~sh.green)
        /\ sh.hw = SpreadHuge =>
              /\ sh.C = LevelMid /\ sh.D = LevelMid /\ sh.E = LevelMid
              /\ sh.G = LevelMid /\ sh.iw = SpreadTiny /\ ~sh.aged
        /\ sh.I = LevelLow => ~sh.green
        /\ (sh.I = LevelHigh /\ sh.hw = SpreadNormal) => sh.green
        /\ sh.I = LevelCrash =>
              (sh.D = LevelLow /\ sh.F = LevelMid /\ sh.G = LevelMid /\ sh.green)
        /\ sh.aged =>
              /\ sh.C = LevelMid /\ sh.D = LevelMid /\ sh.E = LevelMid
              /\ sh.F = LevelMid /\ sh.G = LevelMid /\ sh.I = LevelMid
              /\ sh.hw = SpreadNormal /\ sh.iw = SpreadNormal /\ sh.green}

\* volume of every bar but the last, volume of the last bar, and the factor
\* applied to the bars more than 15 bars back
BaseProfile == [base |-> 100, cur |-> 100, old |-> 1]

VolumeProfiles ==
    {BaseProfile,                                \* multiplier 1.0
     [base |-> 100, cur |-> 50, old |-> 1],      \* multiplier below 0.8
     [base |-> 187, cur |-> 247, old |-> 1],     \* multiplier 1.3 exactly
     [base |-> 111, cur |-> 171, old |-> 1],     \* multiplier 1.5 exactly
     [base |-> 90, cur |-> 190, old |-> 1],      \* multiplier 2.0 exactly
     [base |-> 100, cur |-> 100, old |-> 2]}     \* volume drying up

\* the bar k bars before the end (k = 1 is the last bar)
LayoutBar(k, sh, vp) ==
    LET vol == IF k = 1 THEN vp.cur ELSE IF k > 15 THEN vp.base * vp.old ELSE vp.base
    IN IF k = 1 THEN Bar(sh.I, sh.iw, sh.green, vol)
       ELSE IF k = 2 THEN Bar(sh.G, sh.hw, TRUE, vol)
       ELSE IF sh.aged /\ k = 9 THEN Bar(sh.G, SpreadTiny, FALSE, vol)
       ELSE IF sh.aged /\ k = 10 THEN Bar(sh.G, SpreadWide, TRUE, vol)
       ELSE IF k <= 10 THEN Bar(sh.G, SpreadNormal, TRUE, vol)
       ELSE IF k <= 15 THEN Bar(sh.F, SpreadNormal, TRUE, vol)
       ELSE IF k <= 24 THEN Bar(sh.E, SpreadNormal, TRUE, vol)
       ELSE IF k = 25 THEN Bar(sh.D, SpreadNormal, TRUE, vol)
       ELSE IF k <= 44 THEN Bar(sh.C, SpreadNormal, TRUE, vol)
       ELSE Bar(LevelMid, SpreadNormal, TRUE, vol)

Series(len, sh, vp) == [i \in 1 .. len |-> LayoutBar(len - i + 1, sh, vp)]

\* the outcomes of the floating-point comparisons on the series
AllEnvs ==
    [macd_bullish : BOOLEAN, hist_rising : BOOLEAN,
     low_atr : BOOLEAN, tight_bb : BOOLEAN, ma_pinch : BOOLEAN]

\* a rising histogram only under a bullish MACD, the three squeeze outcomes
\* together and only under both
Envs ==
    {e \in AllEnvs :
        /\ e.hist_rising => e.macd_bullish
        /\ e.low_atr = e.tight_bb /\ e.tight_bb = e.ma_pinch
        /\ e.low_atr => e.hist_rising}

\* pattern types handed to detect_pattern: the six known ones and an unknown one
PatternInputs == PATTERNS \cup {"Head Shoulders Top"}

\* timeframe tags: fetch_and_process_data hands out "daily", "weekly" and "4h";
\* detect_inside_bar and detect_inverse_head_shoulders test for "1wk"
Timeframes == {"daily", "weekly", "4h", "1wk"}

\* detect_pattern passes the timeframe on to three detectors only (lines 946-968)
TimeframeInputs(pattern_type) ==
    IF pattern_type \in {"Consolidation Breakout", "Inside Bar", "Inverse Head Shoulders"}
    THEN Timeframes ELSE {"daily"}

-----------------------------------------------------------------------------
(* The pipeline: main.py calls detect_pattern on a fetched series, then       *)
(* calculate_levels on the pattern's info, then validate_levels.              *)

NoResult == Result(0, EmptyInfo)
NoLevels == EmptyInfo
NoValidation == [valid |-> FALSE, issues |-> <<>>]
\* no run_analysis in progress
NoRun == <<>>

\* a call that drops the last bar of the caller's series, the variant
\* RepeatableDetection is measured against
DataTruncated(s) == SubSeq(s, 1, Len(s) - 1)

\* the caller's series after a call of detect_pattern: the function and the
\* detectors only read data (iloc, tail, rolling and ewm build new objects)
DataAfterDetect(s) == s

\* the state before any call, on a series and an environment
Idle(s, e) ==
    /\ data = s
    /\ env = e
    /\ timeframe = "daily"
    /\ pc = "idle"
    /\ pattern = "none"
    /\ detected = FALSE
    /\ confidence = 0
    /\ raw = NoResult
    /\ info = EmptyInfo
    /\ levels = NoLevels
    /\ validation = NoValidation
    /\ history = <<>>
    /\ run = NoRun

Init ==
    \E len \in Lengths, sh \in Shapes, vp \in VolumeProfiles, e \in Envs :
       /\ len < MaxLen => vp = BaseProfile
       /\ Idle(Series(len, sh, vp), e)

\* detect_pattern(data, pattern_type, market_context, timeframe)
DetectPattern ==
    /\ pc = "idle"
    /\ \E p \in PatternInputs : \E tf \in TimeframeInputs(p) :
          \E r \in {detect_pattern(data, p, env, tf)} :
             /\ pattern' = p
             /\ timeframe' = tf
             /\ detected' = r.detected
             /\ confidence' = r.confidence
             /\ info' = r.info
             /\ raw' = r.raw
    /\ data' = DataAfterDetect(data)
    /\ pc' = "detected"
    /\ UNCHANGED <<env, levels, validation, history, run>>

\* calculate_levels(data, pattern_info, pattern_type)
CalculateLevels ==
    /\ pc = "detected"
    /\ \E lv \in {calculate_levels(data, info, pattern)} : levels' = lv
    /\ pc' = "levelled"
    /\ UNCHANGED <<data, env, timeframe, pattern, detected, confidence, raw, info,
                   validation, history, run>>

\* validate_levels(levels)
ValidateLevels ==
    /\ pc = "levelled"
    /\ \E v \in {validate_levels(levels)} : validation' = v
    /\ pc' = "validated"
    /\ UNCHANGED <<data, env, timeframe, pattern, detected, confidence, raw, info,
                   levels, history, run>>

Next == DetectPattern \/ CalculateLevels \/ ValidateLevels

Spec == Init /\ [][Next]_vars

-----------------------------------------------------------------------------
(* Repeated calls: after a first call of detect_pattern the caller calls it   *)
(* again, on the series the earlier calls left behind; history keeps every    *)
(* later call's arguments, the series before and after it, and its result.    *)

MaxRepeats == 2

RepeatShapes ==
    {sh \in Shapes :
        /\ sh.C = LevelMid /\ sh.D = LevelMid /\ sh.F = LevelMid /\ sh.G = LevelMid
        /\ sh.I = LevelMid /\ sh.green /\ sh.hw = SpreadNormal /\ ~sh.aged}

RepeatEnvs == {e \in Envs : e.macd_bullish /\ ~e.low_atr}

InitRepeat ==
    \E sh \in RepeatShapes, e \in RepeatEnvs : Idle(Series(MaxLen, sh, BaseProfile), e)

\* a later call of detect_pattern; the first call's result stays in place
RepeatDetect ==
    /\ pc = "detected"
    /\ Len(history) < MaxRepeats
    /\ \E p \in PatternInputs : \E tf \in TimeframeInputs(p) :
          \E r \in {detect_pattern(data, p, env, tf)} :
             history' = Append(history,
                               [pattern_type |-> p, timeframe |-> tf, before |-> data,
                                after |-> DataAfterDetect(data),
                                result |-> [detected |-> r.detected,
                                            confidence |-> r.confidence, info |-> r.info]])
    /\ data' = DataAfterDetect(data)
    /\ UNCHANGED <<env, timeframe, pc, pattern, detected, confidence, raw, info, levels,
                   validation, run>>

NextRepeat == DetectPattern \/ RepeatDetect

SpecRepeat == InitRepeat /\ [][NextRepeat]_vars

-----------------------------------------------------------------------------
(* analyze_volume_pattern on its own: any pattern type, and a pattern info    *)
(* holding or lacking the keys the function looks up.                         *)

VolumeShapes ==
    {sh \in Shapes :
        /\ sh.C = LevelMid /\ sh.D = LevelMid /\ sh.E = LevelMid /\ sh.G = LevelMid
        /\ sh.I = LevelMid /\ sh.hw = SpreadNormal /\ ~sh.aged}

VolumeInfos ==
    {EmptyInfo,
     "flagpole_gain" :> 129,
     Flag("vol_dryup") @@ ("consolidation_avg_volume" :> <<1500, 15>>)}

InitVolume ==
    \E len \in Lengths, sh \in VolumeShapes, vp \in VolumeProfiles, e \in RepeatEnvs :
       Idle(Series(len, sh, vp), e)

\* analyze_volume_pattern(data, pattern_type, pattern_info)
AnalyzeVolume ==
    /\ pc = "idle"
    /\ \E p \in PatternInputs, pinfo \in VolumeInfos :
          \E v \in {analyze_volume_pattern(data, p, pinfo)} :
             /\ pattern' = p
             /\ info' = pinfo
             /\ raw' = Result(v.score, v.info)
    /\ pc' = "analyzed"
    /\ UNCHANGED <<data, env, timeframe, detected, confidence, levels, validation, history, run>>

NextVolume == AnalyzeVolume

SpecVolume == InitVolume /\ [][NextVolume]_vars

-----------------------------------------------------------------------------
(* A detector on its own: detect_pattern hands every series of 10 bars or     *)
(* more to the detector, and a detector can be called on a shorter one.       *)

\* one bar less than each detector's minimum (5, 30, 50)
ShortLengths == {4, 29, 49}

\* the number of last bars whose range widens, and the step of the widening
WidenBars == 5
WidenStep == 1

\* a series whose last bars have ranges that grow towards the last bar
\* (expanding volatility): the last two by two steps, the ones before by one
Widened(s) ==
    [i \in 1 .. N(s) |->
        IF N(s) - i + 1 > WidenBars THEN s[i]
        ELSE IF N(s) - i + 1 <= 2
        THEN [s[i] EXCEPT !.h = @ + 2 * WidenStep, !.l = @ - 2 * WidenStep]
        ELSE [s[i] EXCEPT !.h = @ + WidenStep, !.l = @ - WidenStep]]

\* a series whose last three bars are nested: a green bar of wide range, a red
\* bar strictly inside it and a red bar strictly inside that one
Nested(s) ==
    [i \in 1 .. N(s) |->
        IF N(s) - i + 1 = 3 THEN Bar(LevelMid, SpreadWide, TRUE, s[i].v)
        ELSE IF N(s) - i + 1 = 2 THEN Bar(LevelMid, SpreadNormal, FALSE, s[i].v)
        ELSE IF N(s) - i + 1 = 1 THEN Bar(LevelMid, SpreadTiny, FALSE, s[i].v)
        ELSE s[i]]

\* a series longer than the 60 bars detect_inverse_head_shoulders looks back on
\* and than max_consolidation_bars
LongLen == 110

\* a series whose last bar is red and closes on its low, at the lowest low of
\* the bars before it
Retest(s) ==
    [s EXCEPT ![N(s)] = Bar(LowMin(s, 1 .. (N(s) - 1)) + SpreadTiny, SpreadTiny, FALSE, @.v)]

\* the flat layouts: every segment at the middle level, bars of normal range
FlatShapes ==
    {sh \in Shapes :
        /\ sh.C = LevelMid /\ sh.D = LevelMid /\ sh.E = LevelMid /\ sh.F = LevelMid
        /\ sh.G = LevelMid /\ sh.hw = SpreadNormal /\ sh.iw = SpreadNormal /\ ~sh.aged}

\* a series whose last bar is a green bar of normal range that closes just above
\* the highs of the bars before it
Edged(s) ==
    [s EXCEPT ![N(s)] = Bar(HighMax(s, 1 .. (N(s) - 1)), SpreadNormal, TRUE, @.v)]

InitDetector ==
    \/ \E len \in ShortLengths \cup Lengths, sh \in Shapes, e \in Envs :
          Idle(Series(len, sh, BaseProfile), e)
    \/ \E sh \in Shapes, e \in Envs :
          Idle(Widened(Series(MaxLen, sh, BaseProfile)), e)
    \/ \E len \in Lengths, sh \in RepeatShapes, e \in Envs :
          Idle(Nested(Series(len, sh, BaseProfile)), e)
    \/ \E sh \in {x \in Shapes : x.D = LevelLow}, e \in Envs :
          Idle(Retest(Series(MaxLen, sh, BaseProfile)), e)
    \/ \E sh \in {x \in Shapes : x.D = LevelLow}, e \in Envs :
          Idle(Series(LongLen, sh, BaseProfile), e)
    \/ \E sh \in FlatShapes, e \in Envs :
          Idle(Series(LongLen, sh, BaseProfile), e)
    \/ \E sh \in FlatShapes, vp \in VolumeProfiles, e \in Envs :
          \/ Idle(Series(MaxLen, sh, vp), e)
          \/ Idle(Edged(Series(MaxLen, sh, vp)), e)

\* detect_<pattern>(data, macd_line, signal_line, histogram, market_context[, timeframe])
CallDetector ==
    /\ pc = "idle"
    /\ \E p \in PatternInputs : \E tf \in TimeframeInputs(p) :
          \E r \in {Detector(data, p, env, tf)} :
             /\ pattern' = p
             /\ timeframe' = tf
             /\ raw' = r
    /\ pc' = "called"
    /\ UNCHANGED <<data, env, detected, confidence, info, levels, validation, history, run>>

NextDetector == CallDetector

SpecDetector == InitDetector /\ [][NextDetector]_vars

-----------------------------------------------------------------------------
(* calculate_levels on its own: the caller passes the series, an info and the *)
(* pattern type.  The info is the one detect_pattern returns for the series,  *)
(* an empty one, or one whose measured-move field does not parse.             *)

\* the amount a series is lifted by: the ranges stay, the prices rise
LiftHigh == 200

\* the series with every price raised by d
Lifted(s, d) ==
    [i \in 1 .. N(s) |->
        [s[i] EXCEPT !.o = @ + d, !.h = @ + d, !.l = @ + d, !.c = @ + d]]

\* the field the measured move of a pattern type is read from
MeasuredMoveKey(pattern_type) ==
    CASE pattern_type = "Bull Flag" -> "flagpole_gain"
      [] pattern_type = "Cup Handle" -> "cup_depth"
      [] pattern_type = "Inverse Head Shoulders" -> "head_depth_percent"
      [] OTHER -> "none"

\* a value that is no string (a number, None): it has no replace method
NotAString == 0 - 2

\* pattern_info[key].replace('%', '') raises AttributeError on a value that is
\* no string, and `except (ValueError, KeyError)` does not catch it
RaisesAttributeError(pattern_info, pattern_type) ==
    /\ Has(pattern_info, MeasuredMoveKey(pattern_type))
    /\ pattern_info[MeasuredMoveKey(pattern_type)] = NotAString

\* the infos calculate_levels is called with
LevelInfos(s, pattern_type, e) ==
    {detect_pattern(s, pattern_type, e, "daily").info, EmptyInfo}
        \cup (IF MeasuredMoveKey(pattern_type) = "none" THEN {}
              ELSE {MeasuredMoveKey(pattern_type) :> Unparseable,
                    MeasuredMoveKey(pattern_type) :> NotAString})

InitLevels ==
    \E sh \in Shapes, d \in {0, LiftHigh} :
       Idle(Lifted(Series(MaxLen, sh, BaseProfile), d), CHOOSE e \in Envs : e.macd_bullish)

\* calculate_levels(data, pattern_info, pattern_type) returns
LevelsFromInfo ==
    /\ pc = "idle"
    /\ \E p \in PatternInputs : \E m \in LevelInfos(data, p, env) :
          /\ ~RaisesAttributeError(m, p)
          /\ pattern' = p
          /\ info' = m
          /\ \E lv \in {calculate_levels(data, m, p)} : levels' = lv
    /\ pc' = "levelled"
    /\ UNCHANGED <<data, env, timeframe, detected, confidence, raw, validation, history, run>>

\* calculate_levels(data, pattern_info, pattern_type) raises
LevelsRaise ==
    /\ pc = "idle"
    /\ \E p \in PatternInputs : \E m \in LevelInfos(data, p, env) :
          /\ RaisesAttributeError(m, p)
          /\ pattern' = p
          /\ info' = m
    /\ pc' = "raised"
    /\ UNCHANGED <<data, env, timeframe, detected, confidence, raw, levels, validation, history, run>>

NextLevels == LevelsFromInfo \/ LevelsRaise

SpecLevels == InitLevels /\ [][NextLevels]_vars

-----------------------------------------------------------------------------
(* main.py: run_analysis.  For every ticker it fetches a frame, validates it  *)
(* (data_handler.py: fetch_and_process_data, validate_data_quality) and, for  *)
(* every selected pattern, calls detect_pattern, applies the consolidation    *)
(* filter, the timing adjustment (market_timing.py), the volume filter and    *)
(* the confidence threshold, and calls calculate_levels for the pairs that    *)
(* pass.  run.calls records the calls in the order they are made.             *)

\* config.py: MARKET_TIMING_ADJUSTMENTS, in hundredths
WEEKEND_PENALTY == 95
FRIDAY_PENALTY == 85
MIDWEEK_BONUS == 102

\* the day classes of get_market_context: is_weekend, is_friday, is_monday, is_midweek
Days == {"weekend", "friday", "monday", "midweek"}

\* 'Exceptional' in pattern_info.get('volume_status', '')
ExceptionalStatus(pattern_info) ==
    Has(pattern_info, "volume_status")
        /\ pattern_info["volume_status"][1] = "Exceptional Volume"

\* market_timing.py lines 105-138
adjust_confidence_for_timing(conf, pattern_info, day) ==
    LET penalised == day = "friday" /\ ~ExceptionalStatus(pattern_info)
        adjusted == CASE day = "weekend" -> Times(conf, WEEKEND_PENALTY, 100)
                      [] penalised -> Times(conf, FRIDAY_PENALTY, 100)
                      [] day = "midweek" -> Times(conf, MIDWEEK_BONUS, 100)
                      [] OTHER -> conf
        note == CASE day = "weekend" -> <<"Weekend analysis (-5%)">>
                  [] penalised -> <<"Friday without exceptional volume (-15%)">>
                  [] day = "friday" -> <<"Friday with exceptional volume">>
                  [] day = "monday" -> <<"Monday gap risk - validate post-open">>
                  [] OTHER -> <<"Mid-week optimal timing (+2%)">>
        extra == IF penalised
                 THEN "friday_risk" :> "High volume required for weekend hold"
                 ELSE IF day = "monday"
                 THEN "monday_gap_check" :> "Verify patterns hold after gap"
                 ELSE EmptyInfo
    IN [confidence |-> adjusted,
        info |-> ("timing_adjustments" :> note) @@ ("original_confidence" :> conf)
                 @@ ("timing_adjusted_confidence" :> adjusted) @@ ("day" :> day)
                 @@ extra @@ pattern_info]

\* a fetched frame: the bars, the columns present, the offsets from the last
\* bar of the rows with a null in a required column, the indicator comparisons
RequiredColumns == {"Open", "High", "Low", "Close", "Volume"}

\* every frame passes, the variant DetectionOnlyOnValidData is measured against
validate_nothing(frame) == TRUE

\* data_handler.py lines 284-310
validate_data_quality(frame) ==
    IF N(frame.bars) = 0 THEN FALSE
    ELSE IF N(frame.bars) < 10 THEN FALSE
    ELSE IF ~(RequiredColumns \subseteq frame.columns) THEN FALSE
    ELSE IF \E k \in frame.nulls : k <= 20 THEN FALSE
    ELSE IF \E i \in TailIdx(frame.bars, 20) : frame.bars[i].h < frame.bars[i].l THEN FALSE
    ELSE IF \E i \in TailIdx(frame.bars, 20) : frame.bars[i].v <= 0 THEN FALSE
    ELSE TRUE

\* data_handler.py lines 333-358: the frame is handed on only when it is valid
fetch_and_process_data(frame) == validate_data_quality(frame)

\* main.py lines 228-248; max_box_width is a whole number of percent
apply_consolidation_filters(pattern_info, filters) ==
    IF filters.require_breakout_confirmation /\ ~Truthy(pattern_info, "breakout_confirmed")
    THEN TRUE
    ELSE IF (IF Has(pattern_info, "box_bars") THEN pattern_info["box_bars"] ELSE 0)
               < filters.min_consolidation_bars
    THEN TRUE
    ELSE IF Has(pattern_info, "box_width_pct")
               /\ pattern_info["box_width_pct"][1] * 100
                     > filters.max_box_width * pattern_info["box_width_pct"][2]
    THEN TRUE
    ELSE FALSE

\* no consolidation filters: the empty dict
NoFilters == <<>>

\* lines 182-185: pattern == "Consolidation Breakout" and consolidation_filters
\* and apply_consolidation_filters(info, consolidation_filters)
ConsolidationSkips(pattern_type, pattern_info, filters) ==
    /\ pattern_type = "Consolidation Breakout"
    /\ filters # NoFilters
    /\ apply_consolidation_filters(pattern_info, filters)

\* lines 192-200: info.get('volume_multiplier', 0) < required_threshold, the
\* threshold in tenths
VolumeSkips(pattern_info, require_volume, volume_threshold) ==
    /\ require_volume
    /\ IF Has(pattern_info, "volume_multiplier")
       THEN pattern_info["volume_multiplier"][1] * 10
               < volume_threshold * pattern_info["volume_multiplier"][2]
       ELSE TRUE

\* the test without the confidence, the variant LevelsOnlyAfterPass is measured against
PassesDetected(is_detected, conf, min_confidence) == is_detected

\* line 202: detected and confidence >= min_confidence
PassesThreshold(is_detected, conf, min_confidence) ==
    is_detected /\ conf >= Pts(min_confidence)

\* lines 182-202 for one pair: what becomes of it, with the confidence and the
\* info the loop body holds at that point
Filtered(pattern_type, is_detected, conf, pattern_info, settings) ==
    IF ConsolidationSkips(pattern_type, pattern_info, settings.consolidation_filters)
    THEN [outcome |-> "consolidation filter", confidence |-> conf, info |-> pattern_info]
    ELSE LET adj == adjust_confidence_for_timing(conf, pattern_info, settings.day)
         IN [outcome |-> IF VolumeSkips(adj.info, settings.require_volume,
                                        settings.volume_threshold)
                         THEN "volume filter"
                         ELSE IF PassesThreshold(is_detected, adj.confidence,
                                                 settings.min_confidence)
                         THEN "passed"
                         ELSE "below threshold",
             confidence |-> adj.confidence,
             info |-> adj.info]

\* the frames the tickers resolve to
WithBar(s, k, bar) == [s EXCEPT ![N(s) - k + 1] = bar]

RunShapes ==
    {sh \in Shapes :
        /\ sh.C = LevelMid /\ sh.D = LevelLow /\ sh.E = LevelHigh /\ sh.F = LevelHigh
        /\ sh.G = LevelHigh /\ sh.I = LevelHigh /\ sh.green /\ ~sh.aged
        /\ sh.hw = SpreadNormal /\ sh.iw = SpreadNormal}

RunEnv == CHOOSE e \in Envs : e.macd_bullish /\ e.hist_rising /\ ~e.low_atr

Frame(s) == [bars |-> s, columns |-> RequiredColumns, nulls |-> {}, env |-> RunEnv]

\* the distance from the last bar of a defect the validation does not look at
OldOffset == 30

GoodFrames ==
    {Frame(Series(MaxLen, sh, vp)) : sh \in RunShapes,
                                     vp \in {BaseProfile, [base |-> 90, cur |-> 190, old |-> 1]}}

OldDefectFrames ==
    {Frame(WithBar(f.bars, OldOffset, [Back(f.bars, OldOffset) EXCEPT !.v = 0])) :
        f \in GoodFrames}

BadFrames ==
    UNION {{Frame(SubSeq(f.bars, 1, 8)),
            [f EXCEPT !.columns = RequiredColumns \ {"Volume"}],
            [f EXCEPT !.nulls = {3}],
            Frame(WithBar(f.bars, 2, [Back(f.bars, 2) EXCEPT !.h = Back(f.bars, 2).l,
                                                             !.l = Back(f.bars, 2).h])),
            Frame(WithBar(f.bars, 1, [Back(f.bars, 1) EXCEPT !.v = 0]))} :
           f \in {Frame(Series(MaxLen, sh, BaseProfile)) : sh \in RunShapes}}

TickerLists ==
    {<<a, b>> : a \in BadFrames \cup GoodFrames \cup OldDefectFrames, b \in GoodFrames}
        \cup {<<a, b>> : a \in GoodFrames, b \in BadFrames}

PatternLists ==
    {<<"Flat Top Breakout", "Bull Flag", "Cup Handle">>,
     <<"Inside Bar", "Consolidation Breakout", "Inverse Head Shoulders">>}

\* the sidebar: min_confidence, require_volume, volume_threshold, the
\* consolidation filters (main.py lines 110-145), and the day of the analysis
MinConfidenceLow == 45
MinConfidenceHigh == 70
DefaultFilters ==
    [require_breakout_confirmation |-> TRUE, min_consolidation_bars |-> BOX_BARS_DAILY,
     max_box_width |-> 6]

Settings ==
    [min_confidence : {MinConfidenceLow, DEFAULT_MIN_CONFIDENCE, MinConfidenceHigh},
     require_volume : BOOLEAN, volume_threshold : {VOL_GOOD},
     consolidation_filters : {NoFilters, DefaultFilters},
     day : Days]

InitRun ==
    /\ \E tl \in TickerLists, pl \in PatternLists, st \in Settings :
          /\ (\A i \in 1 .. Len(pl) : pl[i] # "Consolidation Breakout")
                => st.consolidation_filters = NoFilters
          /\ run = [tickers |-> tl, ticker |-> 1, patterns |-> pl, next |-> 1,
                    settings |-> st, calls |-> <<>>, results |-> <<>>]
    /\ data = <<>>
    /\ env = RunEnv
    /\ timeframe = "daily"
    /\ pc = "fetch"
    /\ pattern = "none"
    /\ detected = FALSE
    /\ confidence = 0
    /\ raw = NoResult
    /\ info = EmptyInfo
    /\ levels = NoLevels
    /\ validation = NoValidation
    /\ history = <<>>

\* lines 167-171, 178: the frame is fetched and accepted
FetchTicker ==
    /\ pc = "fetch"
    /\ run.ticker <= Len(run.tickers)
    /\ fetch_and_process_data(run.tickers[run.ticker])
    /\ data' = run.tickers[run.ticker].bars
    /\ env' = run.tickers[run.ticker].env
    /\ run' = [run EXCEPT !.next = 1,
                          !.calls = Append(@, [call |-> "validate_data_quality",
                                               ticker |-> run.ticker, accepted |-> TRUE])]
    /\ pc' = "pattern"
    /\ UNCHANGED <<timeframe, pattern, detected, confidence, raw, info, levels,
                   validation, history>>

\* lines 167-175: the frame is fetched and rejected: st.error, continue
SkipTicker ==
    /\ pc = "fetch"
    /\ run.ticker <= Len(run.tickers)
    /\ ~fetch_and_process_data(run.tickers[run.ticker])
    /\ run' = [run EXCEPT !.ticker = @ + 1,
                          !.calls = Append(@, [call |-> "validate_data_quality",
                                               ticker |-> run.ticker, accepted |-> FALSE])]
    /\ UNCHANGED <<data, env, timeframe, pc, pattern, detected, confidence, raw, info,
                   levels, validation, history>>

\* lines 178-179: detect_pattern for the next selected pattern
RunDetect ==
    /\ pc = "pattern"
    /\ run.next <= Len(run.patterns)
    /\ \E r \in {detect_pattern(data, run.patterns[run.next], env, timeframe)} :
          /\ pattern' = run.patterns[run.next]
          /\ detected' = r.detected
          /\ confidence' = r.confidence
          /\ info' = r.info
          /\ raw' = r.raw
          /\ run' = [run EXCEPT !.calls =
                        Append(@, [call |-> "detect_pattern", ticker |-> run.ticker,
                                   pattern |-> run.patterns[run.next],
                                   detected |-> r.detected, confidence |-> r.confidence,
                                   info |-> r.info])]
    /\ pc' = "filter"
    /\ UNCHANGED <<data, env, timeframe, levels, validation, history>>

\* lines 182-202, 218-220: the pair is filtered out or is below the threshold
RunSkip ==
    /\ pc = "filter"
    /\ \E f \in {Filtered(pattern, detected, confidence, info, run.settings)} :
          /\ f.outcome # "passed"
          /\ confidence' = f.confidence
          /\ info' = f.info
    /\ run' = [run EXCEPT !.next = @ + 1]
    /\ pc' = "pattern"
    /\ UNCHANGED <<data, env, timeframe, pattern, detected, raw, levels, validation, history>>

\* lines 182-202: the pair passes the filters and the threshold
RunPass ==
    /\ pc = "filter"
    /\ \E f \in {Filtered(pattern, detected, confidence, info, run.settings)} :
          /\ f.outcome = "passed"
          /\ confidence' = f.confidence
          /\ info' = f.info
    /\ pc' = "levels"
    /\ UNCHANGED <<data, env, timeframe, pattern, detected, raw, levels, validation,
                   history, run>>

\* lines 204-216: calculate_levels, the display and the result row
RunLevels ==
    /\ pc = "levels"
    /\ \E lv \in {calculate_levels(data, info, pattern)} :
          /\ levels' = lv
          /\ run' = [run EXCEPT !.next = @ + 1,
                                !.calls = Append(@, [call |-> "calculate_levels",
                                                     ticker |-> run.ticker,
                                                     pattern |-> pattern]),
                                !.results = Append(@, [ticker |-> run.ticker,
                                                       pattern |-> pattern,
                                                       confidence |-> confidence,
                                                       levels |-> lv])]
    /\ pc' = "pattern"
    /\ UNCHANGED <<data, env, timeframe, pattern, detected, confidence, raw, info,
                   validation, history>>

\* line 178: the selected patterns are exhausted, on to the next ticker
NextTicker ==
    /\ pc = "pattern"
    /\ run.next > Len(run.patterns)
    /\ run' = [run EXCEPT !.ticker = @ + 1]
    /\ pc' = "fetch"
    /\ UNCHANGED <<data, env, timeframe, pattern, detected, confidence, raw, info,
                   levels, validation, history>>

\* lines 222-226: the tickers are exhausted, the summary is shown
Summarise ==
    /\ pc = "fetch"
    /\ run.ticker > Len(run.tickers)
    /\ pc' = "done"
    /\ UNCHANGED <<data, env, timeframe, pattern, detected, confidence, raw, info,
                   levels, validation, history, run>>

NextRun ==
    \/ FetchTicker
    \/ SkipTicker
    \/ RunDetect
    \/ RunSkip
    \/ RunPass
    \/ RunLevels
    \/ NextTicker
    \/ Summarise

SpecRun == InitRun /\ [][NextRun]_vars

-----------------------------------------------------------------------------
(* create_standard_levels_dict on its own: the caller passes an entry, a stop *)
(* and two proposed targets; info holds the arguments, levels the result.     *)

\* the prices the arguments are drawn from, in whole price units
DictEntry == 100
DictStops == {80, 90, 94, 98, 100, 104}
DictTargets == {96, 102, 106, 112, 125, 160}

InitDict == Idle(<<>>, CHOOSE e \in Envs : e.macd_bullish)

\* create_standard_levels_dict(entry, stop, target1, target2, target_method)
CreateLevelsDict ==
    /\ pc = "idle"
    /\ \E stop \in DictStops, target1 \in DictTargets, target2 \in DictTargets :
          /\ info' = ("entry" :> DictEntry * PU) @@ ("stop" :> stop * PU)
                     @@ ("target1" :> target1 * PU) @@ ("target2" :> target2 * PU)
          /\ \E lv \in {create_standard_levels_dict(DictEntry * PU, stop * PU, target1 * PU,
                                                    target2 * PU, "Proposed Targets")} :
                levels' = lv
    /\ pc' = "levelled"
    /\ UNCHANGED <<data, env, timeframe, pattern, detected, confidence, raw, validation,
                   history, run>>

NextDict == CreateLevelsDict

SpecDict == InitDict /\ [][NextDict]_vars

-----------------------------------------------------------------------------
(* calculate_percentile_ranks on its own: the caller passes a series of        *)
(* indicator values (ATR% or Bollinger width) and a window; info holds the     *)
(* series, the ranks and the outcome of the detector's percentile test on the  *)
(* last rank.                                                                  *)

\* PATTERN_PARAMS["Consolidation Breakout"]: atrp_percentile_cut, bbw_percentile_cut
ATRP_PERCENTILE_CUT == 15
BBW_PERCENTILE_CUT == 15

\* the window (min(perc_window, len(data)) in the code), the length of the
\* series and the values of the indicator
RankWindow == 7
RankLen == 8
RankValues == {1, 2, 3}

\* a rank that is not a number, as the pair 0 / 0
NaNRank == <<0, 0>>

\* data_handler.py lines 173-176, on a window x: (x.iloc[-1] <= x).mean() * 100,
\* as the pair <<100 * count, len>>
percentile_rank(x) ==
    IF Len(x) < 2 THEN NaNRank
    ELSE <<100 * Cardinality({j \in 1 .. Len(x) : x[Len(x)] <= x[j]}), Len(x)>>

\* series.rolling(window).apply(percentile_rank): NaN before the window is full
calculate_percentile_ranks(series, window) ==
    [i \in 1 .. Len(series) |->
        IF i < window THEN NaNRank ELSE percentile_rank(SubSeq(series, i - window + 1, i))]

\* pattern_detectors.py lines 199-201 and 207-209: not isna and pct <= cut
AtOrBelowCut(pct, cut) == pct # NaNRank /\ pct[1] <= cut * pct[2]

InitRank == Idle(<<>>, CHOOSE e \in Envs : e.macd_bullish)

\* ATRp_pct = calculate_percentile_ranks(ATRp, perc_window), then the low_atr test
\* on its last value (the tight_bb test on BBwidth20_pct is the same)
RankSeries ==
    /\ pc = "idle"
    /\ \E series \in [1 .. RankLen -> RankValues] :
          \E ranks \in {calculate_percentile_ranks(series, RankWindow)} :
             info' = ("series" :> series) @@ ("ranks" :> ranks)
                     @@ ("low_atr" :> AtOrBelowCut(ranks[RankLen], ATRP_PERCENTILE_CUT))
                     @@ ("tight_bb" :> AtOrBelowCut(ranks[RankLen], BBW_PERCENTILE_CUT))
    /\ pc' = "ranked"
    /\ UNCHANGED <<data, env, timeframe, pattern, detected, confidence, raw, levels,
                   validation, history, run>>

NextRank == RankSeries

SpecRank == InitRank /\ [][NextRank]_vars

-----------------------------------------------------------------------------
(* Properties *)

TierFlags == {"good_volume", "strong_volume", "exceptional_volume"}
NoTierFlag(m) == \A k \in TierFlags : ~Truthy(m, k)

\* C1: the confidence detect_pattern returns lies between 0 and 100, for every
\* pattern type, known or not, and every series
ConfidenceInRange == pc # "idle" => (0 <= confidence /\ confidence <= 100 * CS)

\* the clamp acts: the detector's confidence times the multiplier exceeds 100
ConfidenceClamped ==
    /\ pc = "detected"
    /\ raw.confidence * PatternMultiplier(pattern) > 100 * 100 * CS
    /\ confidence = 100 * CS

\* C2: when the returned info holds no tier flag (good, strong or exceptional
\* volume), the confidence returned, after the multiplier and the clamp, is at
\* most 70
UnconfirmedConfidenceCapped ==
    (pc # "idle" /\ NoTierFlag(info)) => confidence <= 70 * CS

\* C3: a detector that returns a positive confidence and no tier flag has put
\* confidence_capped in its info, on every return path
UnconfirmedResultMarked ==
    (pc # "idle" /\ raw.confidence > 0 /\ NoTierFlag(raw.info))
        => Has(raw.info, "confidence_capped")

\* entry > stop, target1 > entry, target2 > target1, rr1 >= 1.5, rr2 >= 2.5
LevelsOrdered(lv) ==
    /\ lv["entry"] > lv["stop"]
    /\ lv["target1"] > lv["entry"]
    /\ lv["target2"] > lv["target1"]
    /\ lv["rr_ratio1"][1] * 10 >= 15 * lv["rr_ratio1"][2]
    /\ lv["rr_ratio2"][1] * 10 >= 25 * lv["rr_ratio2"][2]

\* C4: the Levels calculate_levels returns are ordered (entry above stop, target1
\* above entry, target2 above target1) with rr1 >= 1.5 and rr2 >= 2.5, on the
\* Inside Bar path as on the others; stated here for a detected Inside Bar
InsideBarLevelsOrdered ==
    (pc \in {"levelled", "validated"} /\ pattern = "Inside Bar" /\ detected)
        => LevelsOrdered(levels)

\* the spec's example: mother bar 100..110, inside bar 102..108
ExampleInfo ==
    ("mother_bar_high" :> 110) @@ ("mother_bar_low" :> 100)
        @@ ("inside_bar_high" :> 108) @@ ("inside_bar_low" :> 102)

\* a price of n hundredths
Hundredths(n) == n * (PU \div 100)

\* C5: the Inside Bar levels are entry = inside bar high x 1.05, stop = inside bar
\* low x 0.95, target1 = mother bar high, target2 = mother bar high x 1.13,
\* target3 = mother bar high x 1.21 and has_target3 = true (113.4, 96.9, 110,
\* 124.3, 133.1 on the example); every other pattern has has_target3 = false and
\* no target3
InsideBarLevelsFixed ==
    /\ pc \in {"levelled", "validated"} =>
          IF pattern = "Inside Bar"
          THEN /\ levels["has_target3"] = TRUE
               /\ Has(info, "inside_bar_high") =>
                     /\ levels["entry"] = Hundredths(info["inside_bar_high"] * 105)
                     /\ levels["stop"] = Hundredths(info["inside_bar_low"] * 95)
                     /\ levels["target1"] = Hundredths(info["mother_bar_high"] * 100)
                     /\ levels["target2"] = Hundredths(info["mother_bar_high"] * 113)
                     /\ levels["target3"] = Hundredths(info["mother_bar_high"] * 121)
          ELSE levels["has_target3"] = FALSE /\ ~Has(levels, "target3")
    /\ calculate_inside_bar_levels(ExampleInfo, 105)["entry"] = Hundredths(11340)
    /\ calculate_inside_bar_levels(ExampleInfo, 105)["stop"] = Hundredths(9690)
    /\ calculate_inside_bar_levels(ExampleInfo, 105)["target1"] = Hundredths(11000)
    /\ calculate_inside_bar_levels(ExampleInfo, 105)["target2"] = Hundredths(12430)
    /\ calculate_inside_bar_levels(ExampleInfo, 105)["target3"] = Hundredths(13310)

\* levels were computed for a detected Inside Bar
InsideBarLevelled ==
    /\ pc = "levelled" /\ pattern = "Inside Bar" /\ detected
    /\ Has(info, "inside_bar_high")
    /\ levels["has_target3"] = TRUE

\* C6: validate_levels returns valid = false and a non-empty issues list whenever
\* one of entry > stop, target1 > entry, target2 > target1, rr1 >= 1.5, rr2 >= 2.5
\* is violated; stated here for the levels of a detected Inside Bar
ViolationsReported ==
    (pc = "validated" /\ pattern = "Inside Bar" /\ detected /\ ~LevelsOrdered(levels))
        => (~validation.valid /\ validation.issues # <<>>)

\* a green mother bar at or beyond the aging offset of the timeframe, followed
\* by its red inside bar
HasAgedPair(s, tf) ==
    \E k \in InsideBarWindow(tf).aging .. (N(s) - 1) :
       IsInsidePair(Back(s, k - 1), Back(s, k))

\* C7: for an Inside Bar whose green mother bar sits at or beyond the aging
\* offset (6 daily, 8 weekly, 10 4-hour) and is followed by its red inside bar,
\* the detector sets pattern_aging and scales the un-aged, positive confidence
AgedInsideBarFlagged ==
    (pc # "idle" /\ pattern = "Inside Bar" /\ HasAgedPair(data, timeframe))
        => (Truthy(raw.info, "pattern_aging") /\ raw.confidence > 0)

\* the result detect_pattern returned to the first call
FirstResult == [detected |-> detected, confidence |-> confidence, info |-> info]

DetectedIffThreshold ==
    pc # "idle" =>
       /\ detected <=> confidence >= 45 * CS
       /\ N(data) < 10 => (~detected /\ confidence = 0 /\ info = EmptyInfo)

\* a pattern is detected with a confidence below 55
DetectedNearThreshold == pc = "detected" /\ detected /\ confidence < 55 * CS

\* the tier of a volume multiplier cur / (sum20 / 20), by inclusive lower bounds
TierOf(cur, sum20) ==
    IF 20 * cur * 10 >= 20 * sum20 THEN "exceptional_volume"
    ELSE IF 20 * cur * 10 >= 15 * sum20 THEN "strong_volume"
    ELSE IF 20 * cur * 10 >= 13 * sum20 THEN "good_volume"
    ELSE "weak_volume"

\* the points of a tier
TierPoints(tier) ==
    CASE tier = "exceptional_volume" -> 25 * CS
      [] tier = "strong_volume" -> 20 * CS
      [] tier = "good_volume" -> 15 * CS
      [] OTHER -> 0

\* C10: on 20 bars or more analyze_volume_pattern sets exactly one of the flags
\* exceptional, strong, good and weak, by the inclusive lower bounds 2.0, 1.5 and
\* 1.3 on the multiplier, and scores at least the tier's 25, 20, 15 or 0 points
TierByInclusiveBounds ==
    (pc = "analyzed" /\ N(data) >= 20) =>
       /\ {k \in TierFlags \cup {"weak_volume"} : Truthy(raw.info, k)}
             = {TierOf(Back(data, 1).v, VolSum(data, TailIdx(data, 20)))}
       /\ raw.confidence
             >= TierPoints(TierOf(Back(data, 1).v, VolSum(data, TailIdx(data, 20))))

\* a multiplier of exactly 2.0 is rated exceptional
ExactlyTwiceAverage ==
    /\ pc = "analyzed"
    /\ N(data) >= 20
    /\ 20 * Back(data, 1).v = 2 * VolSum(data, TailIdx(data, 20))
    /\ Truthy(raw.info, "exceptional_volume")


\* the minimum number of bars of each detector
MinimumBars(pattern_type) ==
    CASE pattern_type = "Inside Bar" -> 5
      [] pattern_type \in {"Bull Flag", "Cup Handle", "Consolidation Breakout",
                           "Inverse Head Shoulders"} -> 30
      [] pattern_type = "Flat Top Breakout" -> 50
      [] OTHER -> 0

\* C11: a detector called with fewer bars than its minimum (Inside Bar 5, Bull
\* Flag, Cup Handle, Consolidation Breakout and Inverse Head Shoulders 30, Flat
\* Top 50) returns confidence 0 and an info without any field
ShortSeriesEmpty ==
    (pc = "called" /\ N(data) < MinimumBars(pattern)) => raw = Result(0, EmptyInfo)

\* detect_inside_bar was called on 4 bars that end in a green mother bar and
\* its red inside bar
ShortInsideBarCalled ==
    /\ pc = "called" /\ pattern = "Inside Bar" /\ N(data) = 4
    /\ IsInsidePair(Back(data, 1), Back(data, 2))
    /\ raw = Result(0, EmptyInfo)


\* the series passes detect_flat_top's initial-gain (10%) and pullback (8%) tests
FlatTopPullbackPassed(s) ==
    /\ N(s) >= 50
    /\ (HighMax(s, SliceIdx(s, 45, 25)) - Back(s, 45).c) * 100 >= 10 * Back(s, 45).c
    /\ (HighMax(s, SliceIdx(s, 45, 25)) - LowMin(s, SliceIdx(s, 25, 10))) * 100
          >= 8 * HighMax(s, SliceIdx(s, 45, 25))

\* the close is below 0.95 x the pullback low
BelowPullbackLow(s) == Back(s, 1).c * 100 < LowMin(s, SliceIdx(s, 25, 10)) * 95

\* C12: on a series that passes the initial-gain and pullback requirements and
\* closes below 0.95 x the pullback low, detect_flat_top returns confidence 0
\* with pattern_broken and a break_reason, however old the last touch of the
\* resistance is
BrokenFlatTopReported ==
    (/\ pc # "idle" /\ pattern = "Flat Top Breakout"
     /\ FlatTopPullbackPassed(data) /\ BelowPullbackLow(data))
    => /\ raw.confidence = 0
       /\ Truthy(raw.info, "pattern_broken")
       /\ Has(raw.info, "break_reason")


\* the series passes detect_bull_flag's flagpole-gain test (8%)
FlagpoleGainMet(s) ==
    /\ N(s) >= 30
    /\ (HighMax(s, SliceIdx(s, Min2(25, N(s) - 10), 15)) - Back(s, Min2(25, N(s) - 10)).c) * 100
          >= 8 * Back(s, Min2(25, N(s) - 10)).c

\* the close is below 0.95 x the lowest low of the last 15 bars, or below the
\* close the flagpole starts from
BullFlagBroken(s) ==
    \/ Back(s, 1).c * 100 < LowMin(s, TailIdx(s, 15)) * 95
    \/ Back(s, 1).c < Back(s, Min2(25, N(s) - 10)).c

\* none of the last 10 bars has the high of the last 15: the flag is stale
BullFlagStale(s) ==
    \A i \in 1 .. 10 : Back(s, i).h # HighMax(s, TailIdx(s, 15))

\* C13: on a series whose flagpole gain meets the minimum and whose close is
\* below the flag support or below the flagpole start, detect_bull_flag returns
\* confidence 0 and an info of exactly pattern_broken = true and break_reason,
\* also when the flag is stale
BrokenBullFlagReported ==
    (/\ pc # "idle" /\ pattern = "Bull Flag"
     /\ FlagpoleGainMet(data) /\ BullFlagBroken(data))
    => /\ raw.confidence = 0
       /\ DOMAIN raw.info = {"pattern_broken", "break_reason"}
       /\ raw.info["pattern_broken"] = TRUE

\* a broken flag that is stale as well was reported as broken
BrokenStaleBullFlag ==
    /\ pc # "idle" /\ pattern = "Bull Flag"
    /\ FlagpoleGainMet(data) /\ BullFlagBroken(data) /\ BullFlagStale(data)
    /\ raw = BrokenResult("Below flagpole start")


\* the series is long enough for the box of its timeframe and none of the six
\* consolidation criteria is satisfied
NoConsolidationCriterion(s, e, tf) ==
    /\ N(s) >= 30
    /\ N(s) >= ConsolidationWindow(tf).box_bars + 10
    /\ ~e.low_atr /\ ~e.tight_bb /\ ~e.ma_pinch
    /\ NRHits(s) < NR_CLUSTER_MIN_HITS
    /\ ~TightBox(HighMax(s, SliceIdx(s, ConsolidationWindow(tf).box_bars + 1, 1)),
                 LowMin(s, SliceIdx(s, ConsolidationWindow(tf).box_bars + 1, 1)),
                 Back(s, 2).c)
    /\ ~VolDryup(DryBars(s))

\* C15: where none of the six consolidation criteria is satisfied,
\* detect_consolidation_breakout returns confidence 0 (min_confidence_base not
\* added) and an info of the box's dimensions only: no consolidation_criteria
\* and no breakout, volume or confidence_capped field
NoCriterionNoScore ==
    (/\ pc # "idle" /\ pattern = "Consolidation Breakout"
     /\ NoConsolidationCriterion(data, env, timeframe))
    => /\ raw.confidence = 0
       /\ DOMAIN raw.info = {"box_high", "box_low", "box_width_pct", "box_bars", "timeframe"}

\* the detector returned for a wide box without any criterion, on a last bar that
\* closes above the box
WideBoxWithoutCriterion ==
    /\ pc # "idle" /\ pattern = "Consolidation Breakout"
    /\ NoConsolidationCriterion(data, env, timeframe)
    /\ PriceBreakout(data, raw.info["box_high"])
    /\ raw.confidence = 0


\* the multiplier of each pattern type, in hundredths
StatedMultiplier(pattern_type) ==
    CASE pattern_type = "Bull Flag" -> 105
      [] pattern_type = "Cup Handle" -> 110
      [] OTHER -> 100

\* C16: detect_pattern returns min(raw x multiplier, 100), the multiplier being
\* 1.05 for Bull Flag, 1.10 for Cup Handle and 1.0 for every other pattern type,
\* applied to the detector's confidence before the clamp
MultiplierBeforeClamp ==
    (pc # "idle" /\ N(data) >= 10)
    => IF raw.confidence * StatedMultiplier(pattern) >= 100 * 100 * CS
       THEN confidence = 100 * CS
       ELSE confidence * 100 = raw.confidence * StatedMultiplier(pattern)

\* a Cup Handle whose detector confidence is below 100 and whose product with
\* 1.10 is above 100: the clamp acts on the product
CupHandleClampedAfterMultiplier ==
    /\ pc = "detected" /\ pattern = "Cup Handle"
    /\ raw.confidence < 100 * CS
    /\ raw.confidence * 110 > 100 * 100 * CS
    /\ confidence = 100 * CS


\* C14: for Bull Flag, Cup Handle and Inverse Head Shoulders, when the
\* measured-move field of the info is present and is not a percentage (a string
\* that is no number, or a value that is no string), calculate_levels returns,
\* and the targets are entry + 2 x risk and entry + 3 x risk
UnparseableFallsBack ==
    (/\ pc \in {"levelled", "raised"}
     /\ Has(info, MeasuredMoveKey(pattern))
     /\ info[MeasuredMoveKey(pattern)] \in {Unparseable, NotAString})
    => /\ pc = "levelled"
       /\ levels["target1"] = levels["entry"] + 2 * levels["risk"]
       /\ levels["target2"] = levels["entry"] + 3 * levels["risk"]


\* the pattern types whose stop is chosen between two candidates
TwoCandidatePatterns ==
    {"Flat Top Breakout", "Bull Flag", "Cup Handle", "Inverse Head Shoulders"}

\* the lower and the higher of the two candidates of the stop
LowerCandidate == LET c == StopCandidates(data, info, pattern)
                  IN Min2(c.volatility_stop, c.technical_stop)
HigherCandidate == LET c == StopCandidates(data, info, pattern)
                   IN Max2(c.volatility_stop, c.technical_stop)

\* C19: for Flat Top Breakout, Bull Flag, Cup Handle and Inverse Head
\* Shoulders the stop chosen before the minimum-distance adjustment is the lower
\* of the volatility stop and the structural stop; the adjustment only lowers a
\* stop, so the stop of the Levels is then at or below the lower candidate
\* whenever that candidate is below the entry
ConservativeStopChosen ==
    (/\ pc = "levelled" /\ pattern \in TwoCandidatePatterns
     /\ LowerCandidate < levels["entry"])
    => levels["stop"] <= LowerCandidate

\* the minimum stop distances as configured, in tenths of a percent
ConfiguredMinStop(pattern_type) ==
    CASE pattern_type = "Flat Top Breakout" -> 30
      [] pattern_type = "Bull Flag" -> 40
      [] pattern_type = "Cup Handle" -> 50
      [] pattern_type = "Inside Bar" -> 50
      [] pattern_type = "Inverse Head Shoulders" -> 40
      [] pattern_type = "Consolidation Breakout" -> 35

\* C20: for the six pattern types with a configured minimum stop distance the
\* Levels keep entry - stop at or above that percentage of the entry (to the
\* 1/PU the prices are kept at), and the stop is never above the stop chosen
\* from the candidates: it is only moved away from the entry
MinimumStopDistanceKept ==
    (pc = "levelled" /\ pattern \in PATTERNS)
    => /\ levels["entry"] - levels["stop"]
            >= MulDiv(levels["entry"], ConfiguredMinStop(pattern), 1000)
       /\ (pattern \in TwoCandidatePatterns /\ HigherCandidate < levels["entry"])
            => levels["stop"] <= HigherCandidate

\* a Bull Flag stop chosen closer to the entry than 4% of it was moved down to
\* exactly that distance
StopWidenedToMinimum ==
    /\ pc = "levelled" /\ pattern = "Bull Flag"
    /\ HigherCandidate < levels["entry"]
    /\ levels["entry"] - HigherCandidate < MulDiv(levels["entry"], 40, 1000)
    /\ levels["stop"] = levels["entry"] - MulDiv(levels["entry"], 40, 1000)


\* the frame has none of the defects the validation rejects: fewer than 10
\* bars, a missing column, a null, High < Low or a non-positive volume in the
\* trailing 20 bars
AcceptableFrame(f) ==
    /\ N(f.bars) >= 10
    /\ RequiredColumns \subseteq f.columns
    /\ \A k \in f.nulls : k > 20
    /\ \A i \in TailIdx(f.bars, 20) : f.bars[i].h >= f.bars[i].l /\ f.bars[i].v > 0

\* the positions in run.calls of the calls named `name` for ticker t
CallsOf(name, t) ==
    {i \in 1 .. Len(run.calls) : run.calls[i].call = name /\ run.calls[i].ticker = t}

\* C17: run_analysis calls detect_pattern and calculate_levels for a ticker only
\* after validate_data_quality has accepted the ticker's series; a ticker whose
\* series fails the validation gets no detector and no level calculation, and
\* the tickers after it are processed
DetectionOnlyOnValidData ==
    /\ \A i \in 1 .. Len(run.calls) :
          run.calls[i].call \in {"detect_pattern", "calculate_levels"}
          => /\ AcceptableFrame(run.tickers[run.calls[i].ticker])
             /\ \E j \in CallsOf("validate_data_quality", run.calls[i].ticker) :
                   j < i /\ run.calls[j].accepted
    /\ pc = "done"
       => \A t \in 1 .. Len(run.tickers) :
             /\ CallsOf("validate_data_quality", t) # {}
             /\ IF AcceptableFrame(run.tickers[t])
                THEN \A k \in 1 .. Len(run.patterns) :
                        \E i \in CallsOf("detect_pattern", t) :
                           run.calls[i].pattern = run.patterns[k]
                ELSE CallsOf("detect_pattern", t) \cup CallsOf("calculate_levels", t) = {}

\* the first ticker was rejected and the second one went through detection and
\* level calculation
RejectedThenProcessed ==
    /\ pc = "done"
    /\ ~AcceptableFrame(run.tickers[1])
    /\ CallsOf("detect_pattern", 1) = {}
    /\ CallsOf("detect_pattern", 2) # {}
    /\ CallsOf("calculate_levels", 2) # {}

\* the pair of the detect_pattern call d passes: it is detected, its
\* timing-adjusted confidence is at least min_confidence, and neither the
\* consolidation filter nor the volume filter skips it
PairPasses(d) ==
    /\ d.detected
    /\ adjust_confidence_for_timing(d.confidence, d.info, run.settings.day).confidence
          >= run.settings.min_confidence * CS
    /\ ~ConsolidationSkips(d.pattern, d.info, run.settings.consolidation_filters)
    /\ ~VolumeSkips(d.info, run.settings.require_volume, run.settings.volume_threshold)

\* C18: run_analysis calls calculate_levels for a (ticker, pattern) pair only
\* right after detect_pattern has returned for that pair, and only if the pair
\* is detected, its timing-adjusted confidence is at least min_confidence and no
\* filter skips it; the result rows are those of the calculate_levels calls
LevelsOnlyAfterPass ==
    /\ \A i \in 1 .. Len(run.calls) :
          run.calls[i].call = "calculate_levels"
          => /\ i > 1
             /\ run.calls[i - 1].call = "detect_pattern"
             /\ run.calls[i - 1].ticker = run.calls[i].ticker
             /\ run.calls[i - 1].pattern = run.calls[i].pattern
             /\ PairPasses(run.calls[i - 1])
    /\ \A k \in 1 .. Len(run.results) :
          \E i \in CallsOf("calculate_levels", run.results[k].ticker) :
             run.calls[i].pattern = run.results[k].pattern
    /\ Len(run.results)
          = Cardinality({i \in 1 .. Len(run.calls) : run.calls[i].call = "calculate_levels"})

\* the detect_pattern calls of the run whose pair got no calculate_levels call
WithoutLevels ==
    {i \in 1 .. Len(run.calls) :
        /\ run.calls[i].call = "detect_pattern"
        /\ (i = Len(run.calls) \/ run.calls[i + 1].call # "calculate_levels")}

\* the run is over: a detected pair below min_confidence after the timing
\* adjustment and a pair skipped by the volume filter got no Levels, and
\* another pair got its row
FailedPairsWithoutLevels ==
    /\ pc = "done"
    /\ Len(run.results) > 0
    /\ \E i \in WithoutLevels :
          /\ run.calls[i].detected
          /\ adjust_confidence_for_timing(run.calls[i].confidence, run.calls[i].info,
                                          run.settings.day).confidence
                < run.settings.min_confidence * CS
    /\ \E i \in WithoutLevels :
          VolumeSkips(run.calls[i].info, run.settings.require_volume,
                      run.settings.volume_threshold)


\* C21: for entry > stop and any proposed targets, create_standard_levels_dict
\* returns target1 = max(proposed target1, entry + 1.5 x risk) and target2 =
\* max(proposed target2, entry + 2.5 x risk), the ratios reward / risk of the
\* returned targets, and the entry and the stop it was given
TargetsPushedOutward ==
    (pc = "levelled" /\ info["entry"] > info["stop"])
    => LET risk == info["entry"] - info["stop"]
       IN /\ levels["entry"] = info["entry"]
          /\ levels["stop"] = info["stop"]
          /\ 10 * (levels["target1"] - info["entry"])
                = Max2(10 * (info["target1"] - info["entry"]), 15 * risk)
          /\ 10 * (levels["target2"] - info["entry"])
                = Max2(10 * (info["target2"] - info["entry"]), 25 * risk)
          /\ levels["rr_ratio1"] = <<levels["target1"] - info["entry"], risk>>
          /\ levels["rr_ratio2"] = <<levels["target2"] - info["entry"], risk>>

\* a proposed target1 below 1.5 x risk was pushed out while the proposed
\* target2, above 2.5 x risk, was kept
Target1PushedTarget2Kept ==
    /\ pc = "levelled" /\ info["entry"] > info["stop"]
    /\ levels["target1"] > info["target1"]
    /\ 10 * (info["target2"] - info["entry"]) > 25 * (info["entry"] - info["stop"])
    /\ levels["target2"] = info["target2"]

\* the series ends in a green bar followed by two red bars, each strictly inside
\* the bar before it
NestedRedTail(s) ==
    /\ N(s) >= 5
    /\ Back(s, 3).c > Back(s, 3).o
    /\ Back(s, 2).c < Back(s, 2).o /\ Back(s, 1).c < Back(s, 1).o
    /\ Back(s, 2).h < Back(s, 3).h /\ Back(s, 2).l > Back(s, 3).l
    /\ Back(s, 1).h < Back(s, 2).h /\ Back(s, 1).l > Back(s, 2).l

\* C22: on a series that ends in a green mother bar followed by two consecutive
\* red bars, each strictly inside the bar before it, detect_inside_bar reports a
\* double inside bar: inside_bars_count 2, double_inside_bar set, and the
\* mother_bar_high and mother_bar_low of the green outer bar
DoubleInsideBarRecognised ==
    (pc = "called" /\ pattern = "Inside Bar" /\ NestedRedTail(data))
    => /\ Has(raw.info, "inside_bars_count") /\ raw.info["inside_bars_count"] = 2
       /\ Truthy(raw.info, "double_inside_bar")
       /\ raw.info["mother_bar_high"] = Back(data, 3).h
       /\ raw.info["mother_bar_low"] = Back(data, 3).l


\* C23: on weekly data, tagged "weekly" by fetch_and_process_data, detect_inside_bar
\* works with its weekly parameters (lookback 6, base confidence 35, tightness
\* thresholds 0.35 / 0.55 / 0.75, aging factor 0.7, label 'Weekly') and
\* detect_inverse_head_shoulders with its weekly age limit 25: the result is the
\* one of the detectors' weekly branch
WeeklyTagUsesWeeklyParameters ==
    (/\ pc = "called" /\ timeframe = "weekly" /\ N(data) >= MinimumBars(pattern)
     /\ pattern \in {"Inside Bar", "Inverse Head Shoulders"})
    => /\ raw = Detector(data, pattern, env, "1wk")
       /\ pattern = "Inside Bar" => raw.info["timeframe"] = "Weekly"


\* every bar of the series has its close at or above its low
LowAtMostClose(s) == \A i \in 1 .. N(s) : s[i].l <= s[i].c

\* C24: whenever detect_inverse_head_shoulders finds a pattern that passes its
\* validation and the current close is at or below the head price, the
\* confidence is multiplied by 0.6 and below_head_warning is set (the pattern is
\* not zeroed); on series with low <= close this holds in every such case
BelowHeadPenalised ==
    (/\ pc = "called" /\ pattern = "Inverse Head Shoulders" /\ LowAtMostClose(data)
     /\ Has(raw.info, "head_price") /\ Back(data, 1).c <= raw.info["head_price"])
    => /\ Has(raw.info, "below_head_warning")
       /\ raw.confidence > 0


\* the last 60 bars of the series, the window the head and the shoulders are
\* searched in
IHSLookback(s) == SubSeq(s, N(s) - Min2(60, N(s)) + 1, N(s))

\* the position of the right shoulder in the window (from 0), where there is one
RightShoulderPos(rec) ==
    LET head_price == LowMin(rec, 1 .. Len(rec))
        head_idx_pos == SetMin({j \in 0 .. (Len(rec) - 1) : Lo(rec, j) = head_price})
    IN LowestCandidate(rec, ShoulderCandidates(rec, head_idx_pos, Len(rec) - 1, head_price))

\* the number of bars from the right shoulder to the end of the series
BarsSinceRightShoulder(s) == Len(IHSLookback(s)) - RightShoulderPos(IHSLookback(s))

\* C25: on daily data detect_inverse_head_shoulders applies its aging penalty
\* (pattern_aging, age_bars) exactly when the number of bars from the right
\* shoulder to the current bar exceeds the limit of 35, however many bars the
\* series has before the 60-bar lookback window
AgingByShoulderDistance ==
    (/\ pc = "called" /\ pattern = "Inverse Head Shoulders" /\ timeframe = "daily"
     /\ Has(raw.info, "right_shoulder_price"))
    => /\ Has(raw.info, "pattern_aging") <=> BarsSinceRightShoulder(data) > 35
       /\ Has(raw.info, "pattern_aging") => raw.info["age_bars"] = BarsSinceRightShoulder(data)


\* the three breakout flags
BreakoutFlags == {"breakout_confirmed", "partial_breakout", "price_breakout_only"}

\* the flag and the bonus (in points) the tiers give: price with both
\* expansions, price with exactly one, price alone, no price breakout
StatedTier(price, tr, vol) ==
    IF price /\ tr /\ vol THEN [flags |-> {"breakout_confirmed"}, bonus |-> Pts(25)]
    ELSE IF price /\ (tr # vol) THEN [flags |-> {"partial_breakout"}, bonus |-> Pts(35) \div 2]
    ELSE IF price THEN [flags |-> {"price_breakout_only"}, bonus |-> Pts(10)]
    ELSE [flags |-> {}, bonus |-> 0]

\* C26: once a consolidation criterion holds, detect_consolidation_breakout adds
\* 25 with breakout_confirmed when the close is above the box high and both the
\* true range and the volume expand, 17.5 with partial_breakout when exactly
\* one of them expands, 10 with price_breakout_only on the price alone, and
\* nothing when the close is not above the box high, whatever the expansions;
\* at most one of the three flags is set
BreakoutBonusByTier ==
    (pc # "idle" /\ pattern = "Consolidation Breakout" /\ Has(raw.info, "consolidation_criteria"))
    => LET price == Back(data, 1).c > raw.info["box_high"]
           tier == StatedTier(price, TRBreakout(data), VolBreakout(data))
       IN /\ {k \in BreakoutFlags : Has(raw.info, k)} = tier.flags
          /\ Cardinality({k \in BreakoutFlags : Has(raw.info, k)}) <= 1
          /\ raw.info["tr_breakout"] = TRBreakout(data)
          /\ raw.info["vol_breakout"] = VolBreakout(data)
          /\ BreakoutGrade(Result(0, EmptyInfo), price, TRBreakout(data), VolBreakout(data)).confidence
                = tier.bonus

\* the detector scored a consolidation whose last bar closes at or below the box
\* high while its true range and its volume expand: none of the three flags
ExpansionWithoutPriceBreakout ==
    /\ pc # "idle" /\ pattern = "Consolidation Breakout"
    /\ Has(raw.info, "consolidation_criteria")
    /\ Back(data, 1).c <= raw.info["box_high"]
    /\ TRBreakout(data) /\ VolBreakout(data)
    /\ \A k \in BreakoutFlags : ~Has(raw.info, k)


\* the box fields of a detector result
BoxOf(r) == [k \in {"box_high", "box_low", "box_width_pct"} |-> r.info[k]]

\* other current bars: far above the series on a large volume, far below it on a
\* small one
OtherCurrentBars ==
    {Bar(LevelHigh + SpreadHuge, SpreadHuge, TRUE, 500), Bar(LevelCrash, SpreadHuge, FALSE, 1)}

\* C27: detect_consolidation_breakout computes box_high, box_low and
\* box_width_pct from the box_bars bars before the current bar and from the
\* previous close only: they are the highest high and the lowest low of those
\* bars and their difference over the previous close, and they stay the same
\* when the current bar is replaced by another one
BoxExcludesCurrentBar ==
    (pc = "called" /\ pattern = "Consolidation Breakout" /\ Has(raw.info, "box_high"))
    => /\ raw.info["box_high"]
             = HighMax(data, (N(data) - ConsolidationWindow(timeframe).box_bars) .. (N(data) - 1))
       /\ raw.info["box_low"]
             = LowMin(data, (N(data) - ConsolidationWindow(timeframe).box_bars) .. (N(data) - 1))
       /\ raw.info["box_width_pct"]
             = <<raw.info["box_high"] - raw.info["box_low"], data[N(data) - 1].c>>
       /\ \A bar \in OtherCurrentBars :
             BoxOf(detect_consolidation_breakout(WithBar(data, 1, bar), env, timeframe))
                = BoxOf(raw)

\* the detector returned a box whose high lies below the high of the current bar
CurrentBarAboveBox ==
    /\ pc = "called" /\ pattern = "Consolidation Breakout" /\ Has(raw.info, "box_high")
    /\ Back(data, 1).h > raw.info["box_high"]
    /\ Back(data, 1).c > raw.info["box_high"]


\* the bars before the current one number more than max_consolidation_bars and
\* all lie within the box: the consolidation has lasted that long
LongConsolidation(s, box_high, box_low) ==
    /\ N(s) - 1 > MAX_CONSOLIDATION_BARS
    /\ \A i \in 1 .. (N(s) - 1) : s[i].h <= box_high /\ s[i].l >= box_low

\* C28: detect_consolidation_breakout penalises staleness in both branches (a
\* confirmed breakout older than the timeframe's age limit by 0.8 with
\* breakout_aging, an unconfirmed consolidation older than
\* max_consolidation_bars by 0.7 with consolidation_stale), and under the shipped
\* configuration each outcome occurs for some series: a scored consolidation
\* without confirmed breakout that has lasted more than max_consolidation_bars
\* bars carries consolidation_stale
StaleConsolidationFlagged ==
    (/\ pc = "called" /\ pattern = "Consolidation Breakout"
     /\ Has(raw.info, "consolidation_criteria") /\ ~Has(raw.info, "breakout_confirmed")
     /\ LongConsolidation(data, raw.info["box_high"], raw.info["box_low"]))
    => /\ Has(raw.info, "consolidation_stale")
       /\ ~Has(raw.info, "breakout_aging")


\* the values of the full window that ends at position i
WindowAt(series, i) == {j \in (i - RankWindow + 1) .. i : TRUE}

\* 100 x the fraction of the window's values at or below the value at i
ShareAtOrBelow(series, i) ==
    <<100 * Cardinality({j \in WindowAt(series, i) : series[j] <= series[i]}), RankWindow>>

\* C29: for each point with a full trailing window calculate_percentile_ranks
\* returns 100 x the fraction of the window's values that are less than or equal
\* to the current value (the largest value of a window ranks 100), so that the
\* low_atr and tight_bb tests (rank <= 15) hold exactly when at most 15% of the
\* window lies at or below the current value
RankIsShareAtOrBelow ==
    pc = "ranked"
    => /\ \A i \in RankWindow .. RankLen :
             info["ranks"][i] = ShareAtOrBelow(info["series"], i)
       /\ \A i \in RankWindow .. RankLen :
             (\A j \in WindowAt(info["series"], i) : info["series"][j] <= info["series"][i])
                => info["ranks"][i] = <<100 * RankWindow, RankWindow>>
       /\ info["low_atr"] <=> AtOrBelowCut(ShareAtOrBelow(info["series"], RankLen), 15)
       /\ info["tight_bb"] <=> AtOrBelowCut(ShareAtOrBelow(info["series"], RankLen), 15)


=============================================================================
